---- MODULE Spec2Model ----
(***************************************************************************)
(* A model of the iw4x launcher's file synchronisation: the differ, the    *)
(* download loop, the archive extractor and the pass built from them       *)
(* (game.rs), the DLC differ and download loop (dlc.rs), and the older     *)
(* update/update_dir pass with its renames, deletions and cache file       *)
(* (main.rs, cache.rs).                                                    *)
(***************************************************************************)
EXTENDS Integers, Sequences, FiniteSets, TLC

VARIABLES
    manifest,    \* UpdateData: [archives, files], immutable during a pass
    zipWorld,    \* what the zip whose hash the manifest declares holds, per archive
    disk,        \* install directory: path -> content, or NoFile
    artifacts,   \* launcher directory: archive name -> content, or NoFile
    hashes,      \* the in-memory hash cache: key -> hex string, or NoEntry
    pc,          \* position of the pass
    pass,        \* number of the pass being run (1-based)
    todo,        \* what verify_files returned: [archives, files, pb_pos, pb_len]
    fi,          \* index into todo.files of the file being downloaded
    ai,          \* index into todo.archives of the archive being processed
    dl,          \* locals of download_file_to_disk, or NoLoop
    inflight,    \* the request in progress, or NoReq
    log,         \* what this pass did, in order: <<op, key>>
    result,      \* what the pass returned: NotReturned, Ok, or the error
    written,     \* paths truncated and rewritten by extract_archive in this pass
    hashes0,     \* the hash cache as it was when the pass started
    disk0,       \* the install directory as it was when the pass started
    prevHashes,  \* the hash cache as the previous pass left it
    prevResult,  \* what the previous pass returned
    cacheFile,   \* cache.json in the install directory
    args         \* the flags update (main.rs) was called with

vars == <<manifest, zipWorld, disk, artifacts, hashes, pc, pass, todo, fi, ai,
          dl, inflight, log, result, written, hashes0, disk0, prevHashes,
          prevResult, cacheFile, args>>

----------------------------------------------------------------------------
(* Bounds *)

\* Number of consecutive passes run against the same manifest.
MaxPasses == 2
\* Number of entries a hash cache read from the cache file may hold beyond
\* the empty and the fully correct cache.
MaxCacheEntries == 2

\* Number of install paths (standalone files and archive members) a
\* manifest declares.
MaxEntries == 4

----------------------------------------------------------------------------
(* Values *)

NoFile == "NoFile"
\* An entry of the record of what a pass did.
Event(op, key) == <<op, key>>
\* HashMap::get finding nothing (hex strings are tuples, so is this).
NoEntry == <<"none">>
\* ZipArchive::by_name finding nothing.
NoMember == "NoMember"
NoLoop == [kind |-> "none"]
NoReq == [key |-> "none"]
\* What a pass returns.
NotReturned == [status |-> "none"]
Ok == [status |-> "ok"]

\* Hex strings are tuples of characters, so that letter case is something a
\* conversion changes.
ToLowerChar(c) ==
    CASE c = "A" -> "a" [] c = "B" -> "b" [] c = "C" -> "c"
      [] c = "D" -> "d" [] c = "E" -> "e" [] c = "F" -> "f"
      [] OTHER -> c

ToUpperChar(c) ==
    CASE c = "a" -> "A" [] c = "b" -> "B" [] c = "c" -> "C"
      [] c = "d" -> "D" [] c = "e" -> "E" [] c = "f" -> "F"
      [] OTHER -> c

to_lowercase(s) == [i \in DOMAIN s |-> ToLowerChar(s[i])]

to_uppercase(s) == [i \in DOMAIN s |-> ToUpperChar(s[i])]

eq_ignore_ascii_case(a, b) == to_lowercase(a) = to_lowercase(b)

\* File contents.  Each content has its own digest; "junk" is a body that is
\* not the file asked for (an error page, another version), "part" a
\* truncated body.
FileContents == {"c1", "c2", "c3", "c4", "c5"}
ZipContents == {"zipA1", "zipA2"}
Contents == FileContents \cup ZipContents \cup {"junk", "part"}

\* A file that exists and cannot be read (no permission, locked by another
\* process, a directory at the path), and what hashing it returns: Err.
Unreadable == "unreadable"
HashErr == <<"io_error">>

\* The digest of a content as lower-case hex, or HashErr.
get_blake3(c) ==
    CASE c = "c1" -> <<"a", "1">>
      [] c = "c2" -> <<"b", "2">>
      [] c = "c3" -> <<"c", "3">>
      [] c = "c4" -> <<"d", "4">>
      [] c = "c5" -> <<"e", "5">>
      [] c = "zipA1" -> <<"a", "a">>
      [] c = "zipA2" -> <<"b", "b">>
      [] c = "junk" -> <<"f", "0">>
      [] c = "part" -> <<"0", "0">>
      [] c = Unreadable -> HashErr

\* The content a hex digest names (digests are collision free).
ContentOf(h) == CHOOSE c \in Contents : get_blake3(c) = to_lowercase(h)

----------------------------------------------------------------------------
(* The manifest model (game_files.rs) *)

UpdateFileData(blake3, size, path) ==
    [blake3 |-> blake3, size |-> size, path |-> path]

UpdateFile(file_data, url) == [file_data |-> file_data, url |-> url]

UpdateArchive(file_data, url, files) ==
    [file_data |-> file_data, url |-> url, files |-> files]

UpdateData(archives, files) == [archives |-> archives, files |-> files]

Range(s) == {s[i] : i \in DOMAIN s}

RECURSIVE Flatten(_)
Flatten(ss) == IF ss = <<>> THEN <<>> ELSE Head(ss) \o Flatten(Tail(ss))

\* The entries manifests are built from.  Some hashes are written in upper
\* case: the manifest is outside the launcher's control.
F1 == UpdateFile(UpdateFileData(<<"a", "1">>, 1, "f1"), "url/f1")
F2 == UpdateFile(UpdateFileData(<<"B", "2">>, 2, "f2"), "url/f2")
A1 == UpdateArchive(UpdateFileData(<<"A", "a">>, 2, "a1"), "url/a1",
                    << UpdateFileData(<<"c", "3">>, 1, "m1"),
                       UpdateFileData(<<"D", "4">>, 1, "m2") >>)
A2 == UpdateArchive(UpdateFileData(<<"b", "b">>, 1, "a2"), "url/a2",
                    << UpdateFileData(<<"e", "5">>, 1, "m3") >>)

\* The manifests: up to two files and two archives, MaxEntries install paths
\* in all.
Manifests ==
    { m \in { UpdateData(a, f) : a \in {<<>>, <<A1>>, <<A2>>, <<A1, A2>>},
                                 f \in {<<>>, <<F1>>, <<F1, F2>>} } :
      Len(m.files) + Len(Flatten([i \in DOMAIN m.archives |-> m.archives[i].files]))
          <= MaxEntries }

GamePaths == {"f1", "f2", "m1", "m2", "m3"}
LegacyPaths == {"a.dat", "b.dat", "c.dat", "e.dat", "old.dat"}
DlcPaths == {"zone/dlc/d1.ff", "zone/dlc/d2.iwd", "zone/dlc/d3.dat",
             "zone/dlc/d4.ff.iwd", "zone/dlc/ff",
             "iw4x/d1.ff", "iw4x/d2.iwd", "iw4x/d3.dat",
             "iw4x/d4.ff.iwd", "iw4x/ff"}
DlcKeys == {"dlc/d1.ff", "dlc/d2.iwd", "dlc/d3.dat", "dlc/d4.ff.iwd", "dlc/ff"}
Paths == GamePaths \cup DlcPaths \cup LegacyPaths
ArchiveNames == {"a1", "a2"}
Keys == Paths \cup ArchiveNames \cup DlcKeys

\* Every file_data of the manifest that names an install path.
Members(m) == Flatten([i \in DOMAIN m.archives |-> m.archives[i].files])
FileDatas(m) == [i \in DOMAIN m.files |-> m.files[i].file_data]
InstallEntries(m) == Range(FileDatas(m)) \cup Range(Members(m))
ManifestPaths(m) == {e.path : e \in InstallEntries(m)}

\* What the zip of an archive holds for a member path: a content, or NoMember.
\* "full": every declared member with the declared content; "no_first": the
\* first declared member is not in the zip; "bad_first": the first declared
\* member is in the zip with another content.
ZipKinds == {"full", "no_first", "bad_first"}

ZipEntry(archive, kind, path) ==
    LET idx == {i \in DOMAIN archive.files : archive.files[i].path = path}
    IN  IF idx = {} THEN NoMember
        ELSE LET i == CHOOSE j \in idx : TRUE
             IN  IF i = 1 /\ kind = "no_first" THEN NoMember
                 ELSE IF i = 1 /\ kind = "bad_first" THEN "junk"
                 ELSE ContentOf(archive.files[i].blake3)

----------------------------------------------------------------------------
(* The differ (game.rs) *)

EmptyCache == [k \in Keys |-> NoEntry]

get_total_verify_count(update_data) ==
    Len(update_data.files) + Len(Members(update_data))

\* verify_file_needs_download reporting a file without a cache entry stale
\* instead of hashing it.
verify_file_needs_download_miss(file_data, d, h) ==
    IF d[file_data.path] = NoFile \/ h[file_data.path] = NoEntry
    THEN [result |-> TRUE, hashes |-> h, panicked |-> FALSE]
    ELSE IF to_lowercase(h[file_data.path]) # to_lowercase(file_data.blake3)
    THEN [result |-> TRUE, hashes |-> h, panicked |-> FALSE]
    ELSE [result |-> FALSE,
          hashes |-> [h EXCEPT ![file_data.path] = to_lowercase(file_data.blake3)],
          panicked |-> FALSE]

\* verify_file_needs_download hashing the file whatever the cache holds.
verify_file_needs_download_nocache(file_data, d, h) ==
    IF d[file_data.path] = NoFile
    THEN [result |-> TRUE, hashes |-> h, panicked |-> FALSE]
    ELSE IF get_blake3(d[file_data.path]) # to_lowercase(file_data.blake3)
    THEN [result |-> TRUE, hashes |-> h,
          panicked |-> get_blake3(d[file_data.path]) = HashErr]
    ELSE [result |-> FALSE,
          hashes |-> [h EXCEPT ![file_data.path] = to_lowercase(file_data.blake3)],
          panicked |-> FALSE]

\* [result, hashes, panicked]: whether the file needs a download, and the
\* cache after; panicked when the unwrap of the hash of a file without a
\* cache entry meets Err.
verify_file_needs_download(file_data, d, h) ==
    IF d[file_data.path] = NoFile
    THEN [result |-> TRUE, hashes |-> h, panicked |-> FALSE]
    ELSE IF h[file_data.path] = NoEntry /\ get_blake3(d[file_data.path]) = HashErr
    THEN [result |-> TRUE, hashes |-> h, panicked |-> TRUE]
    ELSE LET hash_remote == to_lowercase(file_data.blake3)
             hash_local == to_lowercase(
                 IF h[file_data.path] # NoEntry
                 THEN h[file_data.path]
                 ELSE get_blake3(d[file_data.path]))
         IN  IF hash_local # hash_remote
             THEN [result |-> TRUE, hashes |-> h, panicked |-> FALSE]
             ELSE [result |-> FALSE,
                   hashes |-> [h EXCEPT ![file_data.path] =
                                  to_lowercase(file_data.blake3)],
                   panicked |-> FALSE]

\* The loop over the standalone files: [files, hashes, pos, panicked].
RECURSIVE verify_direct_files(_, _, _, _)
verify_direct_files(files, i, d, acc) ==
    IF i > Len(files) THEN acc
    ELSE LET r == verify_file_needs_download(files[i].file_data, d, acc.hashes)
         IN  IF r.panicked THEN [acc EXCEPT !.panicked = TRUE]
             ELSE verify_direct_files(files, i + 1, d,
                 [files |-> IF r.result THEN Append(acc.files, files[i])
                            ELSE acc.files,
                  hashes |-> r.hashes,
                  pos |-> acc.pos + 1,
                  panicked |-> FALSE])

\* Iterator::any over an archive's members: stops at the first member that
\* needs a download.  [result, hashes, count, panicked].
RECURSIVE any_file_needs_download(_, _, _, _)
any_file_needs_download(members, i, d, h) ==
    IF i > Len(members)
    THEN [result |-> FALSE, hashes |-> h, count |-> i - 1, panicked |-> FALSE]
    ELSE LET r == verify_file_needs_download(members[i], d, h)
         IN  IF r.result
             THEN [result |-> TRUE, hashes |-> r.hashes, count |-> i,
                   panicked |-> r.panicked]
             ELSE any_file_needs_download(members, i + 1, d, r.hashes)

\* The loop over the archives: [archives, hashes, pos, panicked].
RECURSIVE verify_archives(_, _, _, _, _)
verify_archives(archives, nfiles, i, d, acc) ==
    IF i > Len(archives) \/ acc.panicked THEN acc
    ELSE LET r == any_file_needs_download(archives[i].files, 1, d, acc.hashes)
             extra == IF r.count < nfiles THEN nfiles - r.count ELSE 0
         IN  IF r.panicked THEN [acc EXCEPT !.panicked = TRUE]
             ELSE verify_archives(archives, nfiles, i + 1, d,
                 [archives |-> IF r.result
                               THEN Append(acc.archives, archives[i])
                               ELSE acc.archives,
                  hashes |-> r.hashes,
                  pos |-> acc.pos + r.count + extra,
                  panicked |-> FALSE])

\* [archives, files, hashes, pb_pos, pb_len, panicked]
verify_files(update_data, d, h) ==
    LET f == verify_direct_files(update_data.files, 1, d,
                 [files |-> <<>>, hashes |-> h, pos |-> 0, panicked |-> FALSE])
        a == verify_archives(update_data.archives, Len(update_data.files), 1, d,
                 [archives |-> <<>>, hashes |-> f.hashes, pos |-> f.pos,
                  panicked |-> f.panicked])
    IN  [archives |-> a.archives, files |-> f.files, hashes |-> a.hashes,
         pb_pos |-> a.pos, pb_len |-> get_total_verify_count(update_data),
         panicked |-> a.panicked]

verify_downloaded_file(content, expected_hash) ==
    to_lowercase(get_blake3(content)) = to_lowercase(expected_hash)


----------------------------------------------------------------------------
(* The download loop (game.rs download_file_to_disk, http.rs) *)

MAX_DOWNLOAD_ATTEMPTS == 2

\* What one request can come to.  "send_err": the request fails before a
\* response arrives.  "stream_err": the response starts, the destination is
\* created and the body breaks off.  "ok_good": the body is the content the
\* manifest hash names.  "ok_junk": the body is something else (another
\* version, or the body of a non-success response, which is not looked at).
Outcomes == {"send_err", "stream_err", "ok_good", "ok_junk"}

\* http::download_file_progress: [ok, content] where content is what the
\* destination holds afterwards (before: what it held).
download_file_progress(outcome, before, file_data) ==
    CASE outcome = "send_err" -> [ok |-> FALSE, content |-> before]
      [] outcome = "stream_err" -> [ok |-> FALSE, content |-> "part"]
      [] outcome = "ok_good" ->
            [ok |-> TRUE, content |-> ContentOf(file_data.blake3)]
      [] outcome = "ok_junk" -> [ok |-> TRUE, content |-> "junk"]

\* The request URL of an attempt: the plain URL first, then the URL with a
\* cache-busting query.
url_with_cache_bust(url, attempts) ==
    IF attempts > 1 THEN <<url, "?", "random_string">> ELSE <<url>>

\* The locals of download_file_to_disk when it is entered.
DownloadLoop(kind, url, file_data) ==
    [kind |-> kind, url |-> url, file_data |-> file_data,
     attempts |-> 0, download_successful |-> FALSE, slept |-> FALSE]

\* The error download_file_to_disk returns when the loop is exhausted.
DownloadFailed(file_data) ==
    [status |-> "error", error |-> "Failed to download", file |-> file_data.path,
     attempts |-> MAX_DOWNLOAD_ATTEMPTS]

\* download_attempt taking any completed transfer for a verified one.
download_attempt_unverified(loop, outcome, before, h) ==
    LET r == download_file_progress(outcome, before, loop.file_data)
    IN  [dl |-> [loop EXCEPT !.download_successful = r.ok, !.slept = FALSE],
         content |-> r.content,
         hashes |-> IF r.ok
                    THEN [h EXCEPT ![loop.file_data.path] =
                             to_lowercase(loop.file_data.blake3)]
                    ELSE h]

\* One iteration of the loop after the request: [dl, content, hashes].
download_attempt(loop, outcome, before, h) ==
    LET r == download_file_progress(outcome, before, loop.file_data)
        verified == r.ok /\ verify_downloaded_file(r.content, loop.file_data.blake3)
    IN  [dl |-> [loop EXCEPT
                   !.download_successful = verified,
                   !.slept = r.ok /\ ~verified
                             /\ loop.attempts < MAX_DOWNLOAD_ATTEMPTS],
         content |-> r.content,
         hashes |-> IF verified
                    THEN [h EXCEPT ![loop.file_data.path] =
                             to_lowercase(loop.file_data.blake3)]
                    ELSE h]

----------------------------------------------------------------------------
(* The extractor (game.rs extract_archive) *)

ExtractError(member, archive) ==
    [status |-> "error", error |-> "Could not find file", file |-> member.path,
     archive |-> archive.file_data.path]

\* The error extract_archive returns when the hash of an existing member
\* cannot be computed.
HashError(member, archive) ==
    [status |-> "error", error |-> "io", file |-> member.path,
     archive |-> archive.file_data.path]

\* member_is_current without the check: every member is extracted again.
member_never_current(archive_file, d) == FALSE

\* Whether a declared member is on disk with the declared hash already.
member_is_current(archive_file, d) ==
    /\ d[archive_file.path] # NoFile
    /\ verify_downloaded_file(d[archive_file.path], archive_file.blake3)

\* The loop over the declared members: [ok, disk, written, error].
RECURSIVE extract_members(_, _, _, _)
extract_members(archive, kind, i, acc) ==
    IF i > Len(archive.files) THEN acc
    ELSE LET archive_file == archive.files[i]
             p == archive_file.path
         IN  IF acc.disk[p] # NoFile /\ get_blake3(acc.disk[p]) = HashErr
             THEN [acc EXCEPT !.ok = FALSE,
                              !.error = HashError(archive_file, archive)]
             ELSE IF member_is_current(archive_file, acc.disk)
             THEN extract_members(archive, kind, i + 1, acc)
             ELSE IF ZipEntry(archive, kind, p) # NoMember
             THEN extract_members(archive, kind, i + 1,
                      [acc EXCEPT !.disk[p] = ZipEntry(archive, kind, p),
                                  !.written = @ \cup {p}])
             ELSE [acc EXCEPT !.ok = FALSE,
                              !.error = ExtractError(archive_file, archive)]

extract_archive(archive, kind, d) ==
    extract_members(archive, kind, 1,
        [ok |-> TRUE, disk |-> d, written |-> {}, error |-> Ok])


----------------------------------------------------------------------------
(* The DLC manifest, differ and download loop (dlc.rs) *)

\* asset_name is kept as its '.'-separated pieces, the way from_filename
\* splits it.
DlcFile(blake3, size, path, asset_name) ==
    [blake3 |-> blake3, size |-> size, path |-> path, asset_name |-> asset_name]

D1 == DlcFile(<<"a", "1">>, 1, "dlc/d1.ff", <<"d1", "ff">>)
D2 == DlcFile(<<"B", "2">>, 2, "dlc/d2.iwd", <<"d2", "iwd">>)
D3 == DlcFile(<<"c", "3">>, 3, "dlc/d3.dat", <<"d3", "dat">>)

DlcManifest(files) == [files |-> files]

\* The third manifest lists an asset name with two '.' and one with none.
DlcManifests ==
    {DlcManifest(<<D1, D2>>), DlcManifest(<<D3, D1>>),
     DlcManifest(<<DlcFile(<<"c", "3">>, 3, "dlc/d4.ff.iwd", <<"d4", "ff", "iwd">>),
                   DlcFile(<<"d", "4">>, 4, "dlc/ff", <<"ff">>)>>)}

\* format!("dlc/{}", asset_name)
cache_key(file) ==
    CASE file.asset_name = <<"d1", "ff">> -> "dlc/d1.ff"
      [] file.asset_name = <<"d2", "iwd">> -> "dlc/d2.iwd"
      [] file.asset_name = <<"d3", "dat">> -> "dlc/d3.dat"
      [] file.asset_name = <<"d4", "ff", "iwd">> -> "dlc/d4.ff.iwd"
      [] file.asset_name = <<"ff">> -> "dlc/ff"

cdn_url(file) == <<"cdn_base_url", file.path>>

from_filename(filename) ==
    LET ext == filename[Len(filename)]
    IN  CASE ext = "ff" -> [tag |-> "FF", ext |-> ""]
          [] ext = "iwd" -> [tag |-> "IWD", ext |-> ""]
          [] OTHER -> [tag |-> "Unknown", ext |-> ext]

file_type(file) == from_filename(file.asset_name)

get_installation_path(type) ==
    CASE type.tag = "FF" -> "zone/dlc"
      [] type.tag = "IWD" -> "iw4x"
      [] type.tag = "Unknown" -> "zone/dlc"

\* Path::join of an installation directory and an asset name.
join(dir, asset_name) ==
    CASE dir = "zone/dlc" /\ asset_name = <<"d1", "ff">> -> "zone/dlc/d1.ff"
      [] dir = "zone/dlc" /\ asset_name = <<"d2", "iwd">> -> "zone/dlc/d2.iwd"
      [] dir = "zone/dlc" /\ asset_name = <<"d3", "dat">> -> "zone/dlc/d3.dat"
      [] dir = "zone/dlc" /\ asset_name = <<"d4", "ff", "iwd">> -> "zone/dlc/d4.ff.iwd"
      [] dir = "zone/dlc" /\ asset_name = <<"ff">> -> "zone/dlc/ff"
      [] dir = "iw4x" /\ asset_name = <<"d1", "ff">> -> "iw4x/d1.ff"
      [] dir = "iw4x" /\ asset_name = <<"d2", "iwd">> -> "iw4x/d2.iwd"
      [] dir = "iw4x" /\ asset_name = <<"d3", "dat">> -> "iw4x/d3.dat"
      [] dir = "iw4x" /\ asset_name = <<"d4", "ff", "iwd">> -> "iw4x/d4.ff.iwd"
      [] dir = "iw4x" /\ asset_name = <<"ff">> -> "iw4x/ff"

\* The path download_single_file writes to.
target_path(file) ==
    join(get_installation_path(file_type(file)), file.asset_name)

\* file_path taking every file for an FF file.
file_path_ff(file) == join("zone/dlc", file.asset_name)

\* The path file_needs_update looks at.
file_path(file) ==
    LET installation_dir == get_installation_path(file_type(file))
    IN  join(installation_dir, file.asset_name)

\* [ok, stale]: Ok(stale), or Err when the file cannot be hashed.
file_needs_update(file, d, cache) ==
    IF d[file_path(file)] = NoFile THEN [ok |-> TRUE, stale |-> TRUE]
        ELSE LET local_hash == IF cache[cache_key(file)] # NoEntry
                               THEN cache[cache_key(file)]
                               ELSE get_blake3(d[file_path(file)])
             IN  IF local_hash = HashErr THEN [ok |-> FALSE, stale |-> FALSE]
                 ELSE [ok |-> TRUE,
                       stale |-> ~eq_ignore_ascii_case(local_hash, file.blake3)]

DlcFileSystemError(file) ==
    [status |-> "error", error |-> "FileSystem", file |-> file.asset_name,
     attempts |-> 0]

\* [ok, files, error]: the outdated files, or the error of the first file
\* that cannot be hashed.
get_outdated_files(m, d, cache) ==
    LET failing == {i \in DOMAIN m.files :
                       ~file_needs_update(m.files[i], d, cache).ok}
    IN  IF failing = {}
        THEN [ok |-> TRUE,
              files |-> SelectSeq(m.files,
                  LAMBDA file : file_needs_update(file, d, cache).stale),
              error |-> Ok]
        ELSE [ok |-> FALSE, files |-> <<>>,
              error |-> DlcFileSystemError(
                  m.files[CHOOSE i \in failing : \A j \in failing : i <= j])]

max_retry_attempts == 3

\* The locals of download_single_file when it is entered; attempts is the
\* number of the last iteration that ran.
DlcLoop(file) ==
    [kind |-> "dlc", url |-> cdn_url(file), file_data |-> file,
     attempts |-> 0, download_successful |-> FALSE, slept |-> FALSE,
     requested |-> <<>>]

DlcDownloadFailed(file) ==
    [status |-> "error", error |-> "DownloadFailed", file |-> file.asset_name,
     attempts |-> max_retry_attempts]

DlcNetworkError ==
    [status |-> "error", error |-> "Network", file |-> <<"manifest fetch">>,
     attempts |-> 0]

\* dlc_attempt returning success for any completed transfer.
dlc_attempt_unverified(loop, outcome, before) ==
    LET attempt == loop.attempts + 1
        r == download_file_progress(outcome, before, loop.file_data)
    IN  [dl |-> [loop EXCEPT
                   !.attempts = attempt,
                   !.download_successful = r.ok,
                   !.slept = ~r.ok /\ attempt < max_retry_attempts,
                   !.requested = Append(@, loop.url)],
         content |-> r.content,
         actual_hash |-> IF r.ok THEN get_blake3(r.content) ELSE NoEntry]

\* One iteration of the for loop: [dl, content, actual_hash].
dlc_attempt(loop, outcome, before) ==
    LET attempt == loop.attempts + 1
        r == download_file_progress(outcome, before, loop.file_data)
        actual_hash == get_blake3(r.content)
        matches == r.ok /\ eq_ignore_ascii_case(actual_hash, loop.file_data.blake3)
    IN  [dl |-> [loop EXCEPT
                   !.attempts = attempt,
                   !.download_successful = matches,
                   !.slept = ~matches /\ attempt < max_retry_attempts,
                   !.requested = Append(@, loop.url)],
         content |-> IF r.ok /\ ~matches THEN NoFile ELSE r.content,
         actual_hash |-> IF r.ok THEN actual_hash ELSE NoEntry]

----------------------------------------------------------------------------
(* The file list, differ and download loop of main.rs, and cache.rs *)

\* name is kept as <<directory, rest>>, split at the first '/'.
CdnFile(name, blake3, size) == [name |-> name, blake3 |-> blake3, size |-> size]

cdn_info ==
    << CdnFile(<<"iw4", "b.dat">>, <<"a", "1">>, 1),
       CdnFile(<<"iw4", "c.dat">>, <<"B", "2">>, 2),
       CdnFile(<<"iw4", "iw4x.dll">>, <<"c", "3">>, 3),
       CdnFile(<<"iw4-dlc", "e.dat">>, <<"d", "4">>, 4) >>

\* The game definition update is called with.
Game ==
    [engine |-> "iw4",
     rename |-> << <<"a.dat", "b.dat">> >>,
     delete |-> <<"old.dat", "iw4x/d2.iwd">>,
     bonus |-> <<"iw4-dlc">>]

LegacyManifest == [game |-> Game, cdn_info |-> cdn_info]

\* cache.json: missing, blank, not JSON, or a saved map.
CacheFile(kind, h) == [kind |-> kind, hashes |-> h]

get_cache(file) ==
    IF file.kind \in {"missing", "blank"} THEN EmptyCache
    ELSE IF file.kind = "json" THEN file.hashes
    ELSE EmptyCache

\* What save_cache can come to: the file is written; serde_json fails;
\* fs::write fails before it touches the file; fs::write fails after it
\* truncated the file.
SaveOutcomes == {"written", "serialize_err", "open_err", "write_err"}

\* [file, logged]: cache.json afterwards, and whether an error was logged.
save_cache(file, cache, outcome) ==
    CASE outcome = "written" ->
            [file |-> CacheFile("json", cache), logged |-> FALSE]
      [] outcome = "serialize_err" -> [file |-> file, logged |-> TRUE]
      [] outcome = "open_err" -> [file |-> file, logged |-> TRUE]
      [] outcome = "write_err" ->
            [file |-> CacheFile("garbage", EmptyCache), logged |-> TRUE]

\* The paths the scan of "iw4x" and "zone/patch" finds, and the rest of each
\* below the directory name.
ScanPaths == {"iw4x/d1.ff", "iw4x/d2.iwd", "iw4x/d3.dat"}

valid_files(info) ==
    {info[i].name : i \in {j \in DOMAIN info : info[j].name[1] \in {"iw4", "iw4-dlc"}}}

\* The cleanup of update: [disk, removed].
scan_cleanup(info, d) ==
    LET gone == {p \in ScanPaths :
                    /\ d[p] # NoFile
                    /\ <<"iw4", p>> \notin valid_files(info)
                    /\ <<"iw4-dlc", p>> \notin valid_files(info)}
    IN  [disk |-> [p \in Paths |-> IF p \in gone THEN NoFile ELSE d[p]],
         removed |-> gone]

\* rename_files without the test that the source exists: the target of a
\* missing source is left without a file.
RECURSIVE rename_files_unguarded(_, _, _)
rename_files_unguarded(rename, i, acc) ==
    IF i > Len(rename) THEN acc
    ELSE rename_files_unguarded(rename, i + 1,
             [disk |-> [acc.disk EXCEPT ![rename[i][2]] = acc.disk[rename[i][1]],
                                        ![rename[i][1]] = NoFile],
              log |-> Append(acc.log, Event("renamed", rename[i][1]))])

\* The loop over game.rename: [disk, log].
RECURSIVE rename_files(_, _, _)
rename_files(rename, i, acc) ==
    IF i > Len(rename) THEN acc
    ELSE LET old == rename[i][1]
             new == rename[i][2]
         IN  IF acc.disk[old] # NoFile
             THEN rename_files(rename, i + 1,
                      [disk |-> [acc.disk EXCEPT ![new] = acc.disk[old],
                                                 ![old] = NoFile],
                       log |-> Append(acc.log, Event("renamed", old))])
             ELSE rename_files(rename, i + 1, acc)

\* The loop over game.delete: [disk, log].
RECURSIVE delete_files(_, _, _)
delete_files(delete, i, acc) ==
    IF i > Len(delete) THEN acc
    ELSE IF acc.disk[delete[i]] # NoFile
         THEN delete_files(delete, i + 1,
                  [disk |-> [acc.disk EXCEPT ![delete[i]] = NoFile],
                   log |-> Append(acc.log, Event("deleted", delete[i]))])
         ELSE delete_files(delete, i + 1, acc)

\* The first loop of update_dir: [files_to_download, hashes, panicked];
\* panicked when the unwrap of the hash of a file without a cache entry
\* meets Err.
RECURSIVE update_dir_diff(_, _, _, _, _, _)
update_dir_diff(info, remote_dir, skip_iw4x_sp, i, d, acc) ==
    IF i > Len(info) THEN acc
    ELSE LET file == info[i]
         IN  IF file.name[1] # remote_dir \/ file.name = <<"iw4", "iw4x.dll">>
             THEN update_dir_diff(info, remote_dir, skip_iw4x_sp, i + 1, d, acc)
             ELSE IF skip_iw4x_sp /\ file.name = <<"iw4", "iw4x-sp.exe">>
             THEN update_dir_diff(info, remote_dir, skip_iw4x_sp, i + 1, d, acc)
             ELSE LET hash_remote == to_lowercase(file.blake3)
                      file_name == file.name[2]
                      hash_local == IF acc.hashes[file_name] # NoEntry
                                    THEN acc.hashes[file_name]
                                    ELSE get_blake3(d[file_name])
                      stale == d[file_name] = NoFile \/ hash_local # hash_remote
                  IN  IF d[file_name] # NoFile /\ hash_local = HashErr
                      THEN [acc EXCEPT !.panicked = TRUE, !.file = file]
                      ELSE
                      update_dir_diff(info, remote_dir, skip_iw4x_sp, i + 1, d,
                          [files_to_download |->
                               IF stale THEN Append(acc.files_to_download, file)
                               ELSE acc.files_to_download,
                           hashes |->
                               IF stale THEN acc.hashes
                               ELSE [acc.hashes EXCEPT ![file_name] =
                                        to_lowercase(file.blake3)],
                           panicked |-> FALSE,
                           file |-> acc.file])

\* Path::ends_with, which compares whole components, on a path of one
\* component.
ends_with(path, child) == path = child

\* The locals of the loop body of update_dir for one file.
LegacyLoop(file) ==
    [kind |-> "legacy", url |-> <<"MASTER_URL", file.name>>, file_data |-> file,
     attempts |-> 0, download_successful |-> FALSE, slept |-> FALSE,
     requested |-> <<>>, download_complete |-> FALSE, bust_cache |-> FALSE]

Panic(file) ==
    [status |-> "panic", error |-> "panic", file |-> file.name[2], attempts |-> 0]

\* One iteration of the while loop of update_dir.  input1 answers
\* "retry? (Y/n)" after a failed request, input2 answers "Retry download?
\* (Y/n)" after a mismatch.  [dl, content, panicked, local_hash]
update_dir_attempt(loop, outcome, before, input1, input2) ==
    LET file == loop.file_data
        url == IF loop.bust_cache
               THEN <<loop.url[1], loop.url[2], "?", "random_string">>
               ELSE loop.url
        r == download_file_progress(outcome, before, file)
        tried == [loop EXCEPT !.attempts = @ + 1, !.bust_cache = FALSE,
                              !.requested = Append(@, url)]
    IN  IF \/ ~r.ok /\ input1 = "n"
           \/ r.content = NoFile
           \/ get_blake3(r.content) = HashErr
        THEN [dl |-> tried, content |-> r.content, panicked |-> TRUE,
              local_hash |-> NoEntry]
        ELSE LET local_hash == to_lowercase(get_blake3(r.content))
                 remote == to_lowercase(file.blake3)
             IN  IF /\ local_hash # remote
                    /\ ~ends_with(file.name[2], ".html")
                    /\ input2 # "n"
                 THEN [dl |-> [tried EXCEPT !.bust_cache = TRUE],
                       content |-> r.content, panicked |-> FALSE,
                       local_hash |-> local_hash]
                 ELSE [dl |-> [tried EXCEPT !.download_complete = TRUE,
                                            !.download_successful =
                                                local_hash = remote],
                       content |-> r.content, panicked |-> FALSE,
                       local_hash |-> local_hash]

----------------------------------------------------------------------------
(* Initial states *)

EntryOf(m, p) == CHOOSE e \in InstallEntries(m) : e.path = p

\* Install directories: every path of the manifest is missing, holds the
\* content the manifest names, or holds something else; other paths are
\* missing.
DiskStates(m) ==
    { [p \in Paths |->
          IF p \notin ManifestPaths(m) THEN NoFile
          ELSE IF c[p] = "missing" THEN NoFile
          ELSE IF c[p] = "good" THEN ContentOf(EntryOf(m, p).blake3)
          ELSE "junk"] : c \in [ManifestPaths(m) -> {"missing", "good", "junk"}] }

\* Install directories where one path of the manifest holds a file that
\* cannot be read and the others hold what the manifest names.
UnreadableDiskStates(m) ==
    { [p \in Paths |->
          IF p \notin ManifestPaths(m) THEN NoFile
          ELSE IF p = u THEN Unreadable
          ELSE ContentOf(EntryOf(m, p).blake3)] : u \in ManifestPaths(m) }

\* The cache that maps every existing file to the hash of its content.
CorrectCache(d) ==
    [k \in Keys |-> IF k \in Paths /\ d[k] # NoFile
                    THEN get_blake3(d[k]) ELSE NoEntry]

\* The same with the hashes in upper case.
CorrectCacheUpper(d) ==
    [k \in Keys |-> IF k \in Paths /\ d[k] # NoFile
                    THEN to_uppercase(get_blake3(d[k])) ELSE NoEntry]

\* A cache entry for key k: the manifest hash in lower or upper case, or the
\* hash of another content.
CacheValue(m, k, c) ==
    IF c = "lower" THEN to_lowercase(EntryOf(m, k).blake3)
    ELSE IF c = "upper" THEN to_uppercase(EntryOf(m, k).blake3)
    ELSE get_blake3("junk")

\* Caches with at most n entries of the given kinds, whatever the directory
\* holds.
CacheStates(m, n, kinds) ==
    UNION { { [k \in Keys |-> IF k \in S THEN CacheValue(m, k, c[k]) ELSE NoEntry] :
              c \in [S -> kinds] } :
            S \in {T \in SUBSET ManifestPaths(m) : Cardinality(T) <= n} }

NoArgs == [force |-> FALSE, bonus_content |-> FALSE]

NoTodo == [archives |-> <<>>, files |-> <<>>, pb_pos |-> 0, pb_len |-> 0]

InitCommon ==
    /\ artifacts = [a \in ArchiveNames |-> NoFile]
    /\ pass = 1
    /\ todo = NoTodo
    /\ fi = 1
    /\ ai = 1
    /\ dl = NoLoop
    /\ inflight = NoReq
    /\ log = <<>>
    /\ result = NotReturned
    /\ written = {}
    /\ hashes0 = hashes
    /\ disk0 = disk
    /\ prevHashes = hashes
    /\ prevResult = NotReturned

\* The differ alone, on any manifest, directory and cache.
InitDiff ==
    /\ manifest \in Manifests
    /\ zipWorld = [a \in ArchiveNames |-> "full"]
    /\ disk \in DiskStates(manifest)
    /\ hashes \in CacheStates(manifest, MaxCacheEntries, {"lower", "upper", "other"})
                  \cup {CorrectCache(disk), CorrectCacheUpper(disk)}
    /\ InitCommon
    /\ pc = "verify"
    /\ cacheFile = CacheFile("missing", EmptyCache)
    /\ args = NoArgs

\* A pass of download_files.
InitPass ==
    /\ manifest \in Manifests
    /\ zipWorld \in { [a \in ArchiveNames |-> IF a = "a1" THEN k ELSE "full"] :
                      k \in IF A1 \in Range(manifest.archives)
                            THEN ZipKinds ELSE {"full"} }
    /\ \/ /\ disk \in DiskStates(manifest)
          /\ hashes \in CacheStates(manifest, 1, {"other"})
                        \cup {CorrectCache(disk)}
       \/ /\ disk \in UnreadableDiskStates(manifest)
          /\ hashes \in CacheStates(manifest, 1, {"lower", "other"})
    /\ InitCommon
    /\ pc = "verify"
    /\ cacheFile = CacheFile("missing", EmptyCache)
    /\ args = NoArgs

\* DLC directories: the target of every file of the manifest is missing,
\* holds the content the manifest names, or holds something else.
DlcDiskStates(m) ==
    LET T == {target_path(m.files[i]) : i \in DOMAIN m.files}
        FileAt(p) == CHOOSE f \in Range(m.files) : target_path(f) = p
    IN  { [p \in Paths |->
              IF p \notin T THEN NoFile
              ELSE IF c[p] = "missing" THEN NoFile
              ELSE IF c[p] = "good" THEN ContentOf(FileAt(p).blake3)
              ELSE IF c[p] = "unreadable" THEN Unreadable
              ELSE "junk"] :
          c \in [T -> {"missing", "good", "junk", "unreadable"}] }

\* The DLC entries of the cache: none, the hash of what the directory holds
\* (in lower or upper case), or one entry that holds the manifest hash or
\* another hash whatever the directory holds.
DlcCacheStates(m, d) ==
    {EmptyCache}
    \cup { [k \in Keys |->
              IF \E f \in Range(m.files) :
                     /\ cache_key(f) = k
                     /\ d[target_path(f)] \notin {NoFile, Unreadable}
              THEN LET f == CHOOSE g \in Range(m.files) : cache_key(g) = k
                   IN  IF up THEN to_uppercase(get_blake3(d[target_path(f)]))
                       ELSE get_blake3(d[target_path(f)])
              ELSE NoEntry] : up \in BOOLEAN }
    \cup { [EmptyCache EXCEPT ![cache_key(f)] =
                 IF other THEN get_blake3("junk") ELSE to_lowercase(f.blake3)] :
             f \in Range(m.files), other \in BOOLEAN }

InitDlc ==
    /\ manifest \in DlcManifests
    /\ zipWorld = [a \in ArchiveNames |-> "full"]
    /\ disk \in DlcDiskStates(manifest)
    /\ hashes \in DlcCacheStates(manifest, disk)
    /\ InitCommon
    /\ pc = "dlc_check"
    /\ cacheFile = CacheFile("missing", EmptyCache)
    /\ args = NoArgs

\* Install directories of the main.rs pass: a.dat and b.dat are missing, hold
\* the content the list names for b.dat, or something else; c.dat and e.dat
\* are as the list names them or not; the file of game.delete and a file
\* below iw4x are left over or not.
LegacyDiskStates ==
    { [p \in Paths |->
          CASE p = "a.dat" -> a
            [] p = "b.dat" -> b
            [] p = "c.dat" -> IF c THEN ContentOf(cdn_info[2].blake3) ELSE "junk"
            [] p = "e.dat" -> IF e THEN ContentOf(cdn_info[4].blake3) ELSE NoFile
            [] p \in {"old.dat", "iw4x/d2.iwd"} -> IF left THEN "junk" ELSE NoFile
            [] OTHER -> NoFile] :
        a \in {NoFile, ContentOf(cdn_info[1].blake3), "junk"},
        b \in {NoFile, ContentOf(cdn_info[1].blake3), "junk"},
        c \in BOOLEAN, e \in BOOLEAN, left \in BOOLEAN }

\* The same with a b.dat that cannot be read.
LegacyUnreadableDiskStates ==
    { [p \in Paths |->
          CASE p = "b.dat" -> Unreadable
            [] p = "c.dat" -> IF c THEN ContentOf(cdn_info[2].blake3) ELSE "junk"
            [] p = "old.dat" -> IF left THEN "junk" ELSE NoFile
            [] OTHER -> NoFile] : c \in BOOLEAN, left \in BOOLEAN }

\* cache.json: missing, blank, not JSON, the map of what the directory holds, or a
\* map with one entry that is not the hash of what the directory holds.
LegacyCacheFiles(d) ==
    {CacheFile("missing", EmptyCache), CacheFile("blank", EmptyCache),
     CacheFile("garbage", EmptyCache)}
    \cup {CacheFile("json", [k \in Keys |->
              IF k \in LegacyPaths /\ d[k] \notin {NoFile, Unreadable}
              THEN get_blake3(d[k])
              ELSE NoEntry])}
    \cup {CacheFile("json", [EmptyCache EXCEPT !["b.dat"] = v]) :
            v \in {get_blake3("junk"), to_uppercase(cdn_info[1].blake3)}}
    \cup {CacheFile("json", [EmptyCache EXCEPT !["c.dat"] =
                                to_lowercase(cdn_info[2].blake3)])}

InitLegacy ==
    /\ manifest = LegacyManifest
    /\ zipWorld = [a \in ArchiveNames |-> "full"]
    /\ disk \in LegacyDiskStates \cup LegacyUnreadableDiskStates
    /\ hashes = EmptyCache
    /\ InitCommon
    /\ pc = "l_start"
    /\ cacheFile \in LegacyCacheFiles(disk)
    /\ args \in [force : BOOLEAN, bonus_content : BOOLEAN]


----------------------------------------------------------------------------
(* The pass (game.rs download_files) *)

\* PcAfter with the two loops of download_files in the other order.
PcAfterArchivesFirst(f, a) ==
    IF a <= Len(todo.archives) THEN "archive"
    ELSE IF f <= Len(todo.files) THEN "file"
    ELSE "done"

\* Where download_files goes on after file f - 1 and archive a - 1.
PcAfter(f, a) ==
    IF f <= Len(todo.files) THEN "file"
    ELSE IF a <= Len(todo.archives) THEN "archive"
    ELSE "done"

\* What is left of the pass when verify_file_needs_download panics.
HashPanic ==
    [status |-> "panic", error |-> "panic", file |-> "get_blake3", attempts |-> 0]

\* verify_files, and the early return when nothing is stale.
VerifyFiles ==
    /\ pc = "verify"
    /\ LET r == verify_files(manifest, disk, hashes)
       IN  IF r.panicked
           THEN /\ hashes' = hashes
                /\ todo' = todo
                /\ pc' = "panicked"
                /\ result' = HashPanic
           ELSE /\ hashes' = r.hashes
                /\ todo' = [archives |-> r.archives, files |-> r.files,
                            pb_pos |-> r.pb_pos, pb_len |-> r.pb_len]
                /\ pc' = IF r.files # <<>> THEN "file"
                         ELSE IF r.archives # <<>> THEN "archive"
                         ELSE "done"
                /\ result' = IF r.files = <<>> /\ r.archives = <<>> THEN Ok
                             ELSE result
    /\ fi' = 1
    /\ ai' = 1
    /\ log' = Append(log, Event("verify_files", "all"))
    /\ UNCHANGED <<manifest, zipWorld, disk, artifacts, pass, dl, inflight,
                   written, hashes0, disk0, prevHashes,
                   prevResult, cacheFile, args>>

\* The body of the loop over files_to_download, up to the call.
DownloadFile ==
    /\ pc = "file"
    /\ LET file == todo.files[fi]
       IN  /\ dl' = DownloadLoop("file", file.url, file.file_data)
           /\ log' = Append(log, Event("download", file.file_data.path))
    /\ pc' = "fetching"
    /\ UNCHANGED <<manifest, zipWorld, disk, artifacts, hashes, pass, todo, fi,
                   ai, inflight, result, written, hashes0, disk0, prevHashes,
                   prevResult, cacheFile, args>>

\* CheckArchive without the check of the artifact: the archive is always
\* downloaded.
CheckArchiveDownloading ==
    /\ pc = "archive"
    /\ LET archive == todo.archives[ai]
           name == archive.file_data.path
       IN  /\ dl' = DownloadLoop("archive", archive.url, archive.file_data)
           /\ log' = Append(log, Event("download", name))
           /\ pc' = "fetching"
    /\ UNCHANGED <<manifest, zipWorld, disk, artifacts, hashes, pass, todo, fi,
                   ai, inflight, result, written, hashes0, disk0, prevHashes,
                   prevResult, cacheFile, args>>

\* The body of the loop over archives_to_download, up to the download or
\* the "already downloaded" branch.
CheckArchive ==
    /\ pc = "archive"
    /\ LET archive == todo.archives[ai]
           name == archive.file_data.path
       IN  IF artifacts[name] = NoFile
              \/ ~verify_downloaded_file(artifacts[name], archive.file_data.blake3)
           THEN /\ dl' = DownloadLoop("archive", archive.url, archive.file_data)
                /\ log' = Append(log, Event("download", name))
                /\ pc' = "fetching"
           ELSE /\ dl' = dl
                /\ log' = Append(log, Event("already_downloaded", name))
                /\ pc' = "extract"
    /\ UNCHANGED <<manifest, zipWorld, disk, artifacts, hashes, pass, todo, fi,
                   ai, inflight, result, written, hashes0, disk0, prevHashes,
                   prevResult, cacheFile, args>>

\* The head of the while loop and the request.
StartAttempt ==
    /\ pc = "fetching"
    /\ inflight = NoReq
    /\ ~dl.download_successful
    /\ dl.attempts < MAX_DOWNLOAD_ATTEMPTS
    /\ dl' = [dl EXCEPT !.attempts = @ + 1, !.slept = FALSE]
    /\ inflight' = [key |-> dl.file_data.path,
                    url |-> url_with_cache_bust(dl.url, dl.attempts + 1)]
    /\ UNCHANGED <<manifest, zipWorld, disk, artifacts, hashes, pc, pass, todo,
                   fi, ai, log, result, written, hashes0, disk0, prevHashes,
                   prevResult, cacheFile, args>>

\* FinishAttempt going on with the next file or archive when the attempts
\* are used up, and returning the error at the end.
FinishAttemptGoesOn(outcome) ==
    /\ pc = "fetching"
    /\ inflight # NoReq
    /\ LET key == dl.file_data.path
           before == IF dl.kind = "file" THEN disk[key] ELSE artifacts[key]
           r == download_attempt(dl, outcome, before, hashes)
           exhausted == ~r.dl.download_successful
                        /\ r.dl.attempts >= MAX_DOWNLOAD_ATTEMPTS
       IN  /\ disk' = IF dl.kind = "file"
                      THEN [disk EXCEPT ![key] = r.content] ELSE disk
           /\ artifacts' = IF dl.kind = "archive"
                           THEN [artifacts EXCEPT ![key] = r.content]
                           ELSE artifacts
           /\ hashes' = r.hashes
           /\ inflight' = NoReq
           /\ IF r.dl.download_successful
              THEN /\ dl' = r.dl
                   /\ log' = Append(log, Event("verified", key))
                   /\ fi' = IF dl.kind = "file" THEN fi + 1 ELSE fi
                   /\ pc' = IF dl.kind = "archive" THEN "extract"
                            ELSE PcAfter(fi + 1, ai)
                   /\ result' = IF dl.kind = "file" /\ PcAfter(fi + 1, ai) = "done"
                                THEN Ok ELSE result
              ELSE IF exhausted
              THEN /\ dl' = r.dl
                   /\ log' = Append(log, Event("failed", key))
                   /\ fi' = IF dl.kind = "file" THEN fi + 1 ELSE fi
                   /\ pc' = IF dl.kind = "archive" THEN "remove"
                            ELSE PcAfter(fi + 1, ai)
                   /\ result' = IF dl.kind = "file" /\ PcAfter(fi + 1, ai) = "done"
                                THEN DownloadFailed(dl.file_data) ELSE result
              ELSE /\ dl' = r.dl
                   /\ log' = log
                   /\ fi' = fi
                   /\ pc' = pc
                   /\ result' = result
    /\ UNCHANGED <<manifest, zipWorld, pass, todo, ai, written, hashes0, disk0,
                   prevHashes, prevResult, cacheFile, args>>

\* The rest of the iteration, and the loop's exit when the file verified or
\* the attempts are used up.
FinishAttempt(outcome) ==
    /\ pc = "fetching"
    /\ inflight # NoReq
    /\ LET key == dl.file_data.path
           before == IF dl.kind = "file" THEN disk[key] ELSE artifacts[key]
           r == download_attempt(dl, outcome, before, hashes)
           exhausted == ~r.dl.download_successful
                        /\ r.dl.attempts >= MAX_DOWNLOAD_ATTEMPTS
       IN  /\ disk' = IF dl.kind = "file"
                      THEN [disk EXCEPT ![key] = r.content] ELSE disk
           /\ artifacts' = IF dl.kind = "archive"
                           THEN [artifacts EXCEPT ![key] = r.content]
                           ELSE artifacts
           /\ hashes' = r.hashes
           /\ inflight' = NoReq
           /\ IF r.dl.download_successful
              THEN /\ dl' = r.dl
                   /\ log' = Append(log, Event("verified", key))
                   /\ fi' = IF dl.kind = "file" THEN fi + 1 ELSE fi
                   /\ pc' = IF dl.kind = "archive" THEN "extract"
                            ELSE PcAfter(fi + 1, ai)
                   /\ result' = IF dl.kind = "file" /\ PcAfter(fi + 1, ai) = "done"
                                THEN Ok ELSE result
              ELSE IF exhausted
              THEN /\ dl' = r.dl
                   /\ log' = Append(log, Event("failed", key))
                   /\ fi' = fi
                   /\ pc' = "failed"
                   /\ result' = DownloadFailed(dl.file_data)
              ELSE /\ dl' = r.dl
                   /\ log' = log
                   /\ fi' = fi
                   /\ pc' = pc
                   /\ result' = result
    /\ UNCHANGED <<manifest, zipWorld, pass, todo, ai, written, hashes0, disk0,
                   prevHashes, prevResult, cacheFile, args>>

\* ExtractArchive going back to the head of the loop body when the
\* extraction fails, to download and extract the archive again.
ExtractArchiveRetrying ==
    /\ pc = "extract"
    /\ LET archive == todo.archives[ai]
           name == archive.file_data.path
           r == extract_archive(archive, zipWorld[name], disk)
       IN  /\ disk' = r.disk
           /\ written' = written \cup r.written
           /\ log' = Append(log, Event(IF r.ok THEN "extracted"
                                       ELSE IF r.error.error = "io"
                                       THEN "extract_io_error"
                                       ELSE "extract_failed", name))
           /\ pc' = IF r.ok THEN "remove" ELSE "archive"
           /\ result' = result
    /\ UNCHANGED <<manifest, zipWorld, artifacts, hashes, pass, todo, fi, ai, dl,
                   inflight, hashes0, disk0, prevHashes,
                   prevResult, cacheFile, args>>

\* extract_archive on the downloaded artifact.
ExtractArchive ==
    /\ pc = "extract"
    /\ LET archive == todo.archives[ai]
           name == archive.file_data.path
           r == extract_archive(archive, zipWorld[name], disk)
       IN  /\ disk' = r.disk
           /\ written' = written \cup r.written
           /\ log' = Append(log, Event(IF r.ok THEN "extracted"
                                       ELSE IF r.error.error = "io"
                                       THEN "extract_io_error"
                                       ELSE "extract_failed", name))
           /\ pc' = IF r.ok THEN "remove" ELSE "failed"
           /\ result' = IF r.ok THEN result ELSE r.error
    /\ UNCHANGED <<manifest, zipWorld, artifacts, hashes, pass, todo, fi, ai, dl,
                   inflight, hashes0, disk0, prevHashes,
                   prevResult, cacheFile, args>>

\* RemoveArtifact leaving the artifact where it is.
RemoveArtifactKeeping ==
    /\ pc = "remove"
    /\ LET name == todo.archives[ai].file_data.path
       IN  /\ artifacts' = artifacts
           /\ log' = Append(log, Event("removed", name))
    /\ ai' = ai + 1
    /\ pc' = PcAfter(fi, ai + 1)
    /\ result' = IF PcAfter(fi, ai + 1) = "done" THEN Ok ELSE result
    /\ UNCHANGED <<manifest, zipWorld, disk, hashes, pass, todo, fi, dl,
                   inflight, written, hashes0, disk0, prevHashes,
                   prevResult, cacheFile, args>>

\* fs::remove_file on the artifact, and the end of the loop body.
RemoveArtifact ==
    /\ pc = "remove"
    /\ LET name == todo.archives[ai].file_data.path
       IN  /\ artifacts' = [artifacts EXCEPT ![name] = NoFile]
           /\ log' = Append(log, Event("removed", name))
    /\ ai' = ai + 1
    /\ pc' = PcAfter(fi, ai + 1)
    /\ result' = IF PcAfter(fi, ai + 1) = "done" THEN Ok ELSE result
    /\ UNCHANGED <<manifest, zipWorld, disk, hashes, pass, todo, fi, dl,
                   inflight, written, hashes0, disk0, prevHashes,
                   prevResult, cacheFile, args>>

----------------------------------------------------------------------------
(* The DLC pass (dlc.rs update_dlc) *)

\* update_dlc up to the call of download_files: the manifest is fetched (or
\* not), the outdated files are listed, the directories are prepared.
UpdateDlc(fetched) ==
    /\ pc = "dlc_check"
    /\ IF ~fetched
       THEN /\ todo' = todo
            /\ pc' = "dlc_failed"
            /\ result' = DlcNetworkError
       ELSE LET r == get_outdated_files(manifest, disk, hashes)
                outdated_files == r.files
            IN  IF ~r.ok
                THEN /\ todo' = todo
                     /\ pc' = "dlc_failed"
                     /\ result' = r.error
                ELSE /\ todo' = [archives |-> <<>>, files |-> outdated_files,
                                 pb_pos |-> 0, pb_len |-> 0]
                     /\ pc' = IF outdated_files = <<>> THEN "dlc_done"
                              ELSE "dlc_file"
                     /\ result' = IF outdated_files = <<>> THEN Ok ELSE result
    /\ fi' = 1
    /\ ai' = 1
    /\ log' = Append(log, Event("get_outdated_files", "all"))
    /\ UNCHANGED <<manifest, zipWorld, disk, artifacts, hashes, pass, dl,
                   inflight, written, hashes0, disk0, prevHashes, prevResult, cacheFile, args>>

\* The head of the loop of Dlc::download_files: download_single_file is
\* entered for the next outdated file.
DlcDownloadFile ==
    /\ pc = "dlc_file"
    /\ dl' = DlcLoop(todo.files[fi])
    /\ log' = Append(log, Event("download", target_path(todo.files[fi])))
    /\ pc' = "dlc_fetching"
    /\ UNCHANGED <<manifest, zipWorld, disk, artifacts, hashes, pass, todo, fi,
                   ai, inflight, result, written, hashes0, disk0, prevHashes,
                   prevResult, cacheFile, args>>

\* One iteration of the loop of download_single_file, and what
\* Dlc::download_files does when the function returns.
DlcAttempt(outcome) ==
    /\ pc = "dlc_fetching"
    /\ dl.attempts < max_retry_attempts
    /\ LET file == dl.file_data
           path == target_path(file)
           r == dlc_attempt(dl, outcome, disk[path])
       IN  /\ disk' = [disk EXCEPT ![path] = r.content]
           /\ dl' = r.dl
           /\ IF r.dl.download_successful
              THEN /\ hashes' = [hashes EXCEPT ![cache_key(file)] = r.actual_hash]
                   /\ log' = Append(log, Event("verified", path))
                   /\ fi' = fi + 1
                   /\ pc' = IF fi + 1 <= Len(todo.files) THEN "dlc_file"
                            ELSE "dlc_done"
                   /\ result' = IF fi + 1 <= Len(todo.files) THEN result ELSE Ok
              ELSE IF r.dl.attempts >= max_retry_attempts
              THEN /\ hashes' = hashes
                   /\ log' = Append(log, Event("failed", path))
                   /\ fi' = fi
                   /\ pc' = "dlc_failed"
                   /\ result' = DlcDownloadFailed(file)
              ELSE /\ hashes' = hashes
                   /\ log' = log
                   /\ fi' = fi
                   /\ pc' = pc
                   /\ result' = result
    /\ UNCHANGED <<manifest, zipWorld, artifacts, pass, todo, ai, inflight,
                   written, hashes0, disk0, prevHashes, prevResult, cacheFile, args>>

----------------------------------------------------------------------------
(* The pass of main.rs (update, update_dir) *)

MaxRequests == 2

\* iw4x::update: it installs the client library and records its revision,
\* neither of which is a path or key of this model.
iw4x_update(d, h) == [disk |-> d, hashes |-> h]

\* The directories update_dir is called for, in order.
Dirs ==
    <<manifest.game.engine>>
    \o (IF args.bonus_content /\ manifest.game.bonus # <<>>
        THEN manifest.game.bonus ELSE <<>>)

\* Where update goes on after the directory a - 1.
PcAfterDir(a) == IF a <= Len(Dirs) THEN "l_diff" ELSE "l_delete"

\* GetCache loading the cache file in a forced update too.
GetCacheAlways ==
    /\ pc = "l_start"
    /\ hashes' = get_cache(cacheFile)
    /\ hashes0' = hashes'
    /\ prevHashes' = hashes'
    /\ log' = Append(log, Event("get_cache", "all"))
    /\ pc' = "l_rename"
    /\ UNCHANGED <<manifest, zipWorld, disk, artifacts, pass, todo, fi, ai, dl,
                   inflight, result, written, disk0, prevResult, cacheFile, args>>

\* The cache is loaded, or started empty when the update is forced.
GetCache ==
    /\ pc = "l_start"
    /\ hashes' = IF args.force THEN EmptyCache ELSE get_cache(cacheFile)
    /\ hashes0' = hashes'
    /\ prevHashes' = hashes'
    /\ log' = Append(log, Event("get_cache", "all"))
    /\ pc' = "l_rename"
    /\ UNCHANGED <<manifest, zipWorld, disk, artifacts, pass, todo, fi, ai, dl,
                   inflight, result, written, disk0, prevResult, cacheFile, args>>

\* RenameFiles with the loop over game.rename left out.
RenameFilesSkipped ==
    /\ pc = "l_rename"
    /\ pc' = "l_cleanup"
    /\ UNCHANGED <<manifest, zipWorld, disk, artifacts, hashes, pass, todo, fi,
                   ai, dl, inflight, log, result, written, hashes0, disk0,
                   prevHashes, prevResult, cacheFile, args>>

\* RenameFiles with the loop over game.delete run right after the renames.
RenameFilesDeleting ==
    /\ pc = "l_rename"
    /\ LET r == delete_files(manifest.game.delete, 1,
                    rename_files(manifest.game.rename, 1,
                                 [disk |-> disk, log |-> log]))
       IN  /\ disk' = r.disk
           /\ log' = r.log
    /\ pc' = "l_cleanup"
    /\ UNCHANGED <<manifest, zipWorld, artifacts, hashes, pass, todo, fi, ai, dl,
                   inflight, result, written, hashes0, disk0, prevHashes,
                   prevResult, cacheFile, args>>

RenameFiles ==
    /\ pc = "l_rename"
    /\ LET r == rename_files(manifest.game.rename, 1, [disk |-> disk, log |-> log])
       IN  /\ disk' = r.disk
           /\ log' = r.log
    /\ pc' = "l_cleanup"
    /\ UNCHANGED <<manifest, zipWorld, artifacts, hashes, pass, todo, fi, ai, dl,
                   inflight, result, written, hashes0, disk0, prevHashes,
                   prevResult, cacheFile, args>>

\* iw4x::update and the scan of "iw4x" and "zone/patch" for the iw4 engine.
CleanupIw4 ==
    /\ pc = "l_cleanup"
    /\ IF manifest.game.engine = "iw4"
       THEN LET u == iw4x_update(disk, hashes)
                r == scan_cleanup(manifest.cdn_info, u.disk)
            IN  /\ disk' = r.disk
                /\ hashes' = u.hashes
                /\ log' = log \o SelectSeq(
                              <<Event("removed", "iw4x/d1.ff"),
                                Event("removed", "iw4x/d2.iwd"),
                                Event("removed", "iw4x/d3.dat")>>,
                              LAMBDA e : e[2] \in r.removed)
       ELSE UNCHANGED <<disk, hashes, log>>
    /\ pc' = "l_diff"
    /\ UNCHANGED <<manifest, zipWorld, artifacts, pass, todo, fi, ai, dl,
                   inflight, result, written, hashes0, disk0, prevHashes,
                   prevResult, cacheFile, args>>

\* update_dir up to its early return or its second loop.
UpdateDir ==
    /\ pc = "l_diff"
    /\ LET r == update_dir_diff(manifest.cdn_info, Dirs[ai], FALSE, 1, disk,
                    [files_to_download |-> <<>>, hashes |-> hashes,
                     panicked |-> FALSE, file |-> manifest.cdn_info[1]])
       IN  IF r.panicked
           THEN /\ hashes' = hashes
                /\ todo' = todo
                /\ pc' = "l_panicked"
                /\ ai' = ai
                /\ result' = Panic(r.file)
           ELSE /\ hashes' = r.hashes
                /\ todo' = [archives |-> <<>>, files |-> r.files_to_download,
                            pb_pos |-> 0, pb_len |-> 0]
                /\ result' = result
                /\ IF r.files_to_download = <<>>
                   THEN /\ pc' = PcAfterDir(ai + 1)
                        /\ ai' = ai + 1
                   ELSE /\ pc' = "l_file"
                        /\ ai' = ai
    /\ fi' = 1
    /\ log' = Append(log, Event("update_dir", Dirs[ai]))
    /\ UNCHANGED <<manifest, zipWorld, disk, artifacts, pass, dl, inflight,
                   written, hashes0, disk0, prevHashes, prevResult,
                   cacheFile, args>>

\* The head of the second loop of update_dir.
LegacyDownloadFile ==
    /\ pc = "l_file"
    /\ dl' = LegacyLoop(todo.files[fi])
    /\ log' = Append(log, Event("download", todo.files[fi].name[2]))
    /\ pc' = "l_fetching"
    /\ UNCHANGED <<manifest, zipWorld, disk, artifacts, hashes, pass, todo, fi,
                   ai, inflight, result, written, hashes0, disk0, prevHashes,
                   prevResult, cacheFile, args>>

\* One iteration of the while loop, and the rest of the loop body when the
\* download is complete.  The user may ask for MaxRequests requests.
LegacyAttempt(outcome, input1, input2) ==
    /\ pc = "l_fetching"
    /\ LET file_name == dl.file_data.name[2]
           r == update_dir_attempt(dl, outcome, disk[file_name], input1, input2)
           last == fi + 1 > Len(todo.files)
       IN  /\ r.panicked \/ r.dl.download_complete \/ r.dl.attempts < MaxRequests
           /\ disk' = [disk EXCEPT ![file_name] = r.content]
           /\ dl' = r.dl
           /\ IF r.panicked
              THEN /\ pc' = "l_panicked"
                   /\ result' = Panic(dl.file_data)
                   /\ log' = Append(log, Event("panicked", file_name))
                   /\ UNCHANGED <<hashes, fi, ai>>
              ELSE IF r.dl.download_complete
              THEN /\ hashes' = [hashes EXCEPT ![file_name] = r.local_hash]
                   /\ log' = Append(log, Event(IF r.dl.download_successful
                                               THEN "verified" ELSE "accepted",
                                               file_name))
                   /\ fi' = fi + 1
                   /\ ai' = IF last THEN ai + 1 ELSE ai
                   /\ pc' = IF last THEN PcAfterDir(ai + 1) ELSE "l_file"
                   /\ result' = result
              ELSE UNCHANGED <<hashes, log, fi, ai, pc, result>>
    /\ UNCHANGED <<manifest, zipWorld, artifacts, pass, todo, inflight, written,
                   hashes0, disk0, prevHashes, prevResult, cacheFile, args>>

DeleteFiles ==
    /\ pc = "l_delete"
    /\ LET r == delete_files(manifest.game.delete, 1, [disk |-> disk, log |-> log])
       IN  /\ disk' = r.disk
           /\ log' = r.log
    /\ pc' = "l_save"
    /\ UNCHANGED <<manifest, zipWorld, artifacts, hashes, pass, todo, fi, ai, dl,
                   inflight, result, written, hashes0, disk0, prevHashes,
                   prevResult, cacheFile, args>>

\* SaveCache ending the pass with a panic when the cache cannot be saved.
SaveCachePanicking(outcome) ==
    /\ pc = "l_save"
    /\ LET r == save_cache(cacheFile, hashes, outcome)
       IN  /\ cacheFile' = r.file
           /\ log' = Append(log, Event(IF r.logged THEN "save_failed"
                                       ELSE "save_cache", "all"))
           /\ pc' = IF r.logged THEN "l_panicked" ELSE "l_done"
           /\ result' = IF r.logged THEN HashPanic ELSE Ok
    /\ UNCHANGED <<manifest, zipWorld, disk, artifacts, hashes, pass, todo, fi,
                   ai, dl, inflight, written, hashes0, disk0, prevHashes,
                   prevResult, args>>

\* SaveCache without the write.
SaveCacheSkipped(outcome) ==
    /\ pc = "l_save"
    /\ log' = Append(log, Event("save_cache", "all"))
    /\ pc' = "l_done"
    /\ result' = Ok
    /\ UNCHANGED <<manifest, zipWorld, disk, artifacts, hashes, pass, todo, fi,
                   ai, dl, inflight, written, hashes0, disk0, prevHashes,
                   prevResult, cacheFile, args>>

\* cache::save_cache(dir, cache), and the end of update.
SaveCache(outcome) ==
    /\ pc = "l_save"
    /\ LET r == save_cache(cacheFile, hashes, outcome)
       IN  /\ cacheFile' = r.file
           /\ log' = Append(log, Event(IF r.logged THEN "save_failed"
                                       ELSE "save_cache", "all"))
    /\ pc' = "l_done"
    /\ result' = Ok
    /\ UNCHANGED <<manifest, zipWorld, disk, artifacts, hashes, pass, todo, fi,
                   ai, dl, inflight, written, hashes0, disk0, prevHashes,
                   prevResult, args>>

\* update is called again with the same manifest and the cache the pass
\* before left.
NextPass ==
    /\ pc \in {"done", "failed", "dlc_done", "dlc_failed"}
    /\ pass < MaxPasses
    /\ pass' = pass + 1
    /\ pc' = IF pc \in {"done", "failed"} THEN "verify" ELSE "dlc_check"
    /\ todo' = NoTodo
    /\ fi' = 1
    /\ ai' = 1
    /\ log' = <<>>
    /\ result' = NotReturned
    /\ written' = {}
    /\ hashes0' = hashes
    /\ disk0' = disk
    /\ prevHashes' = hashes
    /\ prevResult' = result
    /\ dl' = NoLoop
    /\ UNCHANGED <<manifest, zipWorld, disk, artifacts, hashes, inflight,
                   cacheFile, args>>

NextDiff ==
    \/ VerifyFiles
    \/ UpdateDlc(TRUE)

SpecDiff == (InitDiff \/ InitDlc) /\ [][NextDiff]_vars

\* A pass of game.rs, and the passes after it.
NextGame ==
    \/ VerifyFiles
    \/ DownloadFile
    \/ CheckArchive
    \/ StartAttempt
    \/ \E outcome \in Outcomes : FinishAttempt(outcome)
    \/ ExtractArchive
    \/ RemoveArtifact
    \/ NextPass

SpecGame == InitPass /\ [][NextGame]_vars

\* A pass of dlc.rs, and the passes after it.
NextDlc ==
    \/ \E fetched \in BOOLEAN : UpdateDlc(fetched)
    \/ DlcDownloadFile
    \/ \E outcome \in Outcomes : DlcAttempt(outcome)
    \/ NextPass

SpecDlc == InitDlc /\ [][NextDlc]_vars

\* A pass of main.rs.
NextLegacy ==
    \/ GetCache
    \/ RenameFiles
    \/ CleanupIw4
    \/ UpdateDir
    \/ LegacyDownloadFile
    \/ \E outcome \in Outcomes, input1, input2 \in {"n", "y"} :
           LegacyAttempt(outcome, input1, input2)
    \/ DeleteFiles
    \/ \E outcome \in SaveOutcomes : SaveCache(outcome)

SpecLegacy == InitLegacy /\ [][NextLegacy]_vars

\* Every pass.
Init == InitPass \/ InitDlc \/ InitLegacy

Next == NextGame \/ NextDlc \/ NextLegacy

Spec == Init /\ [][Next]_vars

----------------------------------------------------------------------------
(* The manifest conversion (game_files.rs, release_definition.rs) *)

\* The longest list of file entries of a release definition.
MaxDtoFiles == 2

\* Option::None of UpdateFileDto.asset_name and UpdateFileDto.archive.
None == "None"

\* The three errors of the conversion.
MissingAssetError(archive_dto, release) ==
    [status |-> "error", error |-> "Archive is missing its asset in release",
     file |-> archive_dto.name, archive |-> release.release_name]

ArchiveNotFoundError(file_dto) ==
    [status |-> "error", error |-> "Archive of file could not be found",
     file |-> file_dto.path, archive |-> file_dto.archive]

AssetNotFoundError(file_dto) ==
    [status |-> "error", error |-> "Asset of file could not be found",
     file |-> file_dto.path, archive |-> file_dto.asset_name]

\* iter().find(..) on a list: the first of the indices of the elements
\* that satisfy the test, or 0.
FindFirst(matching) ==
    IF matching = {} THEN 0
    ELSE CHOOSE i \in matching : \A j \in matching : i <= j

\* UpdateArchiveDto::into_domain: [ok, value, error].
archive_into_domain(archive_dto, release) ==
    LET i == FindFirst({k \in DOMAIN release.assets :
                 release.assets[k].name = archive_dto.name})
    IN  IF i = 0
        THEN [ok |-> FALSE, value |-> UpdateArchive(
                  UpdateFileData(archive_dto.blake3, archive_dto.size,
                                 archive_dto.name), None, <<>>),
              error |-> MissingAssetError(archive_dto, release)]
        ELSE [ok |-> TRUE,
              value |-> UpdateArchive(
                  UpdateFileData(archive_dto.blake3, archive_dto.size,
                                 archive_dto.name),
                  release.assets[i].url, <<>>),
              error |-> Ok]

\* add_to_update_data dropping a file whose archive is not found.
add_to_update_data_skipping(file_dto, update_data, release) ==
    LET file_data == UpdateFileData(file_dto.blake3, file_dto.size, file_dto.path)
        a == FindFirst({k \in DOMAIN update_data.archives :
                 update_data.archives[k].file_data.path = file_dto.archive})
        f == FindFirst({k \in DOMAIN release.assets :
                 release.assets[k].name = file_dto.asset_name})
    IN  IF file_dto.archive # None /\ a # 0
        THEN [ok |-> TRUE, error |-> Ok,
              update_data |-> [update_data EXCEPT
                  !.archives[a].files = Append(@, file_data)]]
        ELSE IF file_dto.archive = None /\ file_dto.asset_name # None /\ f = 0
        THEN [ok |-> FALSE, update_data |-> update_data,
              error |-> AssetNotFoundError(file_dto)]
        ELSE IF file_dto.archive = None /\ file_dto.asset_name # None
        THEN [ok |-> TRUE, error |-> Ok,
              update_data |-> [update_data EXCEPT
                  !.files = Append(@, UpdateFile(file_data, release.assets[f].url))]]
        ELSE [ok |-> TRUE, update_data |-> update_data, error |-> Ok]

\* UpdateFileDto::add_to_update_data: [ok, update_data, error].
add_to_update_data(file_dto, update_data, release) ==
    LET file_data == UpdateFileData(file_dto.blake3, file_dto.size, file_dto.path)
    IN  IF file_dto.archive # None
        THEN LET a == FindFirst({k \in DOMAIN update_data.archives :
                 update_data.archives[k].file_data.path = file_dto.archive})
             IN  IF a = 0
                 THEN [ok |-> FALSE, update_data |-> update_data,
                       error |-> ArchiveNotFoundError(file_dto)]
                 ELSE [ok |-> TRUE, error |-> Ok,
                       update_data |-> [update_data EXCEPT
                           !.archives[a].files = Append(@, file_data)]]
        ELSE IF file_dto.asset_name # None
        THEN LET f == FindFirst({k \in DOMAIN release.assets :
                 release.assets[k].name = file_dto.asset_name})
             IN  IF f = 0
                 THEN [ok |-> FALSE, update_data |-> update_data,
                       error |-> AssetNotFoundError(file_dto)]
                 ELSE [ok |-> TRUE, error |-> Ok,
                       update_data |-> [update_data EXCEPT
                           !.files = Append(@, UpdateFile(file_data,
                                                          release.assets[f].url))]]
        ELSE [ok |-> TRUE, update_data |-> update_data, error |-> Ok]

\* try_for_each over the file entries: stops at the first error.
RECURSIVE add_files(_, _, _, _)
add_files(files, i, acc, release) ==
    IF i > Len(files) THEN acc
    ELSE LET r == add_to_update_data(files[i], acc.update_data, release)
         IN  IF r.ok THEN add_files(files, i + 1, r, release) ELSE r

\* UpdateDataDto::into_domain: [ok, update_data, error].
into_domain(dto, release) ==
    LET converted == [i \in DOMAIN dto.archives |->
                         archive_into_domain(dto.archives[i], release)]
        failed == FindFirst({k \in DOMAIN converted :
                 ~converted[k].ok})
        archives == [i \in DOMAIN dto.archives |-> converted[i].value]
    IN  IF failed # 0
        THEN [ok |-> FALSE, update_data |-> UpdateData(<<>>, <<>>),
              error |-> converted[failed].error]
        ELSE add_files(dto.files, 1,
                 [ok |-> TRUE, update_data |-> UpdateData(archives, <<>>),
                  error |-> Ok], release)

\* Release definitions: the archives a1 and a2 or fewer, and up to
\* MaxDtoFiles file entries that name a declared or an undeclared archive, a
\* release asset that may be missing, or nothing.
DtoInputs ==
    LET archive_dtos == <<[blake3 |-> <<"a", "a">>, size |-> 1, name |-> "a1"],
                          [blake3 |-> <<"b", "b">>, size |-> 1, name |-> "a2"]>>
        file_dtos ==
            { [blake3 |-> <<"a", "1">>, size |-> 1, path |-> "f1",
               asset_name |-> "f1", archive |-> None],
              [blake3 |-> <<"b", "2">>, size |-> 1, path |-> "f2",
               asset_name |-> "f2", archive |-> None],
              [blake3 |-> <<"c", "3">>, size |-> 1, path |-> "m1",
               asset_name |-> None, archive |-> "a1"],
              [blake3 |-> <<"D", "4">>, size |-> 1, path |-> "m2",
               asset_name |-> "f1", archive |-> "a2"],
              [blake3 |-> <<"e", "5">>, size |-> 1, path |-> "m3",
               asset_name |-> None, archive |-> "a3"],
              [blake3 |-> <<"e", "5">>, size |-> 1, path |-> "m3",
               asset_name |-> None, archive |-> None] }
        asset(name) == [name |-> name, url |-> <<"url", name>>]
        releases == { [release_name |-> "r1", assets |-> a] :
                        a \in { <<asset("a1"), asset("a2"), asset("f1")>>,
                                <<asset("a1"), asset("f1"), asset("f2")>>,
                                <<asset("a2"), asset("a1")>>,
                                <<asset("f1")>> } }
    IN  { [dto |-> [archives |-> SubSeq(archive_dtos, 1, n), files |-> f],
           release |-> r, converted |-> FALSE,
           update_data |-> UpdateData(<<>>, <<>>)] :
          n \in 0..2,
          f \in UNION { [1..k -> file_dtos] : k \in 0..MaxDtoFiles },
          r \in releases }

InitConvert ==
    /\ manifest \in DtoInputs
    /\ zipWorld = [a \in ArchiveNames |-> "full"]
    /\ disk = [p \in Paths |-> NoFile]
    /\ hashes = EmptyCache
    /\ InitCommon
    /\ pc = "c_start"
    /\ cacheFile = CacheFile("missing", EmptyCache)
    /\ args = NoArgs

\* fetch_definition_data_from_release: update_data.into_domain(release).
Convert ==
    /\ pc = "c_start"
    /\ LET r == into_domain(manifest.dto, manifest.release)
       IN  /\ manifest' = [manifest EXCEPT
                             !.converted = r.ok,
                             !.update_data = IF r.ok THEN r.update_data ELSE @]
           /\ result' = r.error
    /\ pc' = "c_done"
    /\ log' = Append(log, Event("into_domain", "all"))
    /\ UNCHANGED <<zipWorld, disk, artifacts, hashes, pass, todo, fi, ai, dl,
                   inflight, written, hashes0, disk0, prevHashes, prevResult,
                   cacheFile, args>>

SpecConvert == InitConvert /\ [][Convert]_vars

----------------------------------------------------------------------------
(* The renames and deletions of update applied repeatedly (main.rs) *)

MaxRenames == 2
MaxDeletes == 2

\* game.rename: up to MaxRenames entries (old, new) over three paths, old and
\* new different.  game.delete: up to MaxDeletes paths.
RenameLists ==
    LET pairs == {e \in {"a.dat", "b.dat", "c.dat"} \X {"a.dat", "b.dat", "c.dat"} :
                     e[1] # e[2]}
    IN  UNION {[1..n -> pairs] : n \in 0..MaxRenames}

DeleteLists == UNION {[1..n -> {"old.dat", "c.dat"}] : n \in 0..MaxDeletes}

\* Each path is missing or holds a content of its own.
ReconcileDiskStates ==
    { [p \in Paths |->
          CASE p = "a.dat" -> IF a THEN ContentOf(cdn_info[1].blake3) ELSE NoFile
            [] p = "b.dat" -> IF b THEN "junk" ELSE NoFile
            [] p = "c.dat" -> IF c THEN ContentOf(cdn_info[2].blake3) ELSE NoFile
            [] p = "old.dat" -> IF old THEN "part" ELSE NoFile
            [] OTHER -> NoFile] :
        a \in BOOLEAN, b \in BOOLEAN, c \in BOOLEAN, old \in BOOLEAN }

InitReconcile ==
    /\ \E rename \in RenameLists, delete \in DeleteLists :
           manifest = [game |-> [engine |-> "iw4", rename |-> rename,
                                 delete |-> delete, bonus |-> <<>>],
                       cdn_info |-> cdn_info]
    /\ zipWorld = [a \in ArchiveNames |-> "full"]
    /\ disk \in ReconcileDiskStates
    /\ hashes = EmptyCache
    /\ InitCommon
    /\ pc = "r_rename"
    /\ cacheFile = CacheFile("missing", EmptyCache)
    /\ args = NoArgs

\* The loop over game.rename, run for the pass-th time on the same
\* directory; log holds what this run reported.
ApplyRenames ==
    /\ pc = "r_rename"
    /\ LET r == rename_files(manifest.game.rename, 1, [disk |-> disk, log |-> <<>>])
       IN  /\ disk' = r.disk
           /\ log' = r.log
    /\ disk0' = disk
    /\ pass' = IF pass < MaxPasses THEN pass + 1 ELSE 1
    /\ pc' = IF pass < MaxPasses THEN "r_rename" ELSE "r_delete"
    /\ UNCHANGED <<manifest, zipWorld, artifacts, hashes, todo, fi, ai, dl,
                   inflight, result, written, hashes0, prevHashes, prevResult,
                   cacheFile, args>>

\* The loop over game.delete, run for the pass-th time.
ApplyDeletions ==
    /\ pc = "r_delete"
    /\ LET r == delete_files(manifest.game.delete, 1, [disk |-> disk, log |-> <<>>])
       IN  /\ disk' = r.disk
           /\ log' = r.log
    /\ disk0' = disk
    /\ pass' = pass + 1
    /\ pc' = IF pass < MaxPasses THEN "r_delete" ELSE "r_done"
    /\ UNCHANGED <<manifest, zipWorld, artifacts, hashes, todo, fi, ai, dl,
                   inflight, result, written, hashes0, prevHashes, prevResult,
                   cacheFile, args>>

SpecReconcile == InitReconcile /\ [][ApplyRenames \/ ApplyDeletions]_vars

----------------------------------------------------------------------------
(* One call of download_file_progress, chunk by chunk (http.rs, http_async.rs) *)

\* Length in bytes of the longest body, manifest size and content length.
MaxBody == 3

\* The call as it is entered.  variant: which of the two functions.  size:
\* the manifest size passed in.  has_length, content_length: what
\* Response::content_length returns (None, or Some(content_length)).
\* status: the response status.  body: the bytes the server sends before the
\* stream ends.  start_position: the cumulative offset passed in (http.rs).
\* file_pb, total_pb: the bars as the caller hands them over; game.rs has set
\* the file bar to 0, dlc.rs resets it once before its attempts and
\* update_dir never, so that a later attempt finds the position of the
\* earlier one.  downloaded, file_size: the locals.  delivered: bytes of the
\* body received.  in_file: bytes in the destination file since File::create.
InitTransfer ==
    /\ manifest = UpdateData(<<>>, <<F1>>)
    /\ zipWorld = [a \in ArchiveNames |-> "full"]
    /\ \E before \in {NoFile, "c1", "junk"} :
           disk = [p \in Paths |-> IF p = "f1" THEN before ELSE NoFile]
    /\ hashes = EmptyCache
    /\ artifacts = [a \in ArchiveNames |-> NoFile]
    /\ pass = 1
    /\ todo = NoTodo
    /\ fi = 1
    /\ ai = 1
    /\ dl = NoLoop
    /\ log = <<>>
    /\ result = NotReturned
    /\ written = {}
    /\ hashes0 = hashes
    /\ disk0 = disk
    /\ prevHashes = hashes
    /\ prevResult = NotReturned
    /\ pc = "t_send"
    /\ cacheFile = CacheFile("missing", EmptyCache)
    /\ args = NoArgs
    /\ \E variant \in {"http", "http_async"}, size \in 1..MaxBody,
          has_length \in BOOLEAN, content_length \in 0..MaxBody,
          status \in {"200", "404"}, body \in 0..MaxBody,
          start_position \in {0, 1}, left \in {0, 1} :
           /\ ~has_length => content_length = 0
           /\ (variant = "http_async") => start_position = 0
           /\ inflight =
                 [key |-> "f1", url |-> <<"url/f1">>, variant |-> variant,
                  size |-> size, has_length |-> has_length,
                  content_length |-> content_length, status |-> status,
                  body |-> body, start_position |-> start_position,
                  file_size |-> 0, downloaded |-> 0,
                  file_pb |-> [position |-> left, length |-> size],
                  total_pb |-> start_position + left,
                  delivered |-> 0, in_file |-> 0, updates |-> 0]

\* The request with a check of the response status (error_for_status)
\* before the destination is created.
RequestCheckingStatus(outcome) ==
    /\ pc = "t_send"
    /\ IF outcome = "send_err"
       THEN /\ result' = [status |-> "error", error |-> "Failed to GET",
                          file |-> inflight.key, attempts |-> 0]
            /\ pc' = "t_done"
            /\ UNCHANGED <<disk, inflight, log>>
       ELSE LET file_size == IF inflight.has_length THEN inflight.content_length
                             ELSE inflight.size
                sized == [inflight EXCEPT
                             !.file_size = file_size,
                             !.file_pb.length =
                                 IF inflight.variant = "http_async"
                                 THEN file_size ELSE @]
            IN  IF inflight.status # "200"
                THEN /\ result' = [status |-> "error",
                                   error |-> "Status is not a success",
                                   file |-> inflight.key, attempts |-> 0]
                     /\ pc' = "t_done"
                     /\ inflight' = sized
                     /\ UNCHANGED <<disk, log>>
                ELSE IF outcome = "create_err"
                THEN /\ result' = [status |-> "error",
                                   error |-> "Failed to create file",
                                   file |-> inflight.key, attempts |-> 0]
                     /\ pc' = "t_done"
                     /\ inflight' = sized
                     /\ UNCHANGED <<disk, log>>
                ELSE /\ disk' = [disk EXCEPT ![inflight.key] = "part"]
                     /\ log' = Append(log, Event("create", inflight.key))
                     /\ inflight' = sized
                     /\ pc' = "t_stream"
                     /\ UNCHANGED result
    /\ UNCHANGED <<manifest, zipWorld, artifacts, hashes, pass, todo, fi, ai,
                   dl, written, hashes0, disk0, prevHashes, prevResult,
                   cacheFile, args>>

\* The request with File::create moved before send().
RequestCreatingFirst(outcome) ==
    /\ pc = "t_send"
    /\ IF outcome = "send_err"
       THEN /\ result' = [status |-> "error", error |-> "Failed to GET",
                          file |-> inflight.key, attempts |-> 0]
            /\ pc' = "t_done"
            /\ disk' = [disk EXCEPT ![inflight.key] = "part"]
            /\ log' = Append(log, Event("create", inflight.key))
            /\ UNCHANGED inflight
       ELSE LET file_size == IF inflight.has_length THEN inflight.content_length
                             ELSE inflight.size
                sized == [inflight EXCEPT
                             !.file_size = file_size,
                             !.file_pb.length =
                                 IF inflight.variant = "http_async"
                                 THEN file_size ELSE @]
            IN  IF outcome = "create_err"
                THEN /\ result' = [status |-> "error",
                                   error |-> "Failed to create file",
                                   file |-> inflight.key, attempts |-> 0]
                     /\ pc' = "t_done"
                     /\ inflight' = sized
                     /\ UNCHANGED <<disk, log>>
                ELSE /\ disk' = [disk EXCEPT ![inflight.key] = "part"]
                     /\ log' = Append(log, Event("create", inflight.key))
                     /\ inflight' = sized
                     /\ pc' = "t_stream"
                     /\ UNCHANGED result
    /\ UNCHANGED <<manifest, zipWorld, artifacts, hashes, pass, todo, fi, ai,
                   dl, written, hashes0, disk0, prevHashes, prevResult,
                   cacheFile, args>>

\* Lines 96-113 of http.rs (22-47 of http_async.rs): the request is sent, the
\* total is taken from the response, the destination is created.  The status
\* of the response is not read.  "send_err": send() fails, the function
\* returns before File::create.  "create_err": File::create fails.
Request(outcome) ==
    /\ pc = "t_send"
    /\ IF outcome = "send_err"
       THEN /\ result' = [status |-> "error", error |-> "Failed to GET",
                          file |-> inflight.key, attempts |-> 0]
            /\ pc' = "t_done"
            /\ UNCHANGED <<disk, inflight, log>>
       ELSE LET file_size == IF inflight.has_length THEN inflight.content_length
                             ELSE inflight.size
                sized == [inflight EXCEPT
                             !.file_size = file_size,
                             !.file_pb.length =
                                 IF inflight.variant = "http_async"
                                 THEN file_size ELSE @]
            IN  IF outcome = "create_err"
                THEN /\ result' = [status |-> "error",
                                   error |-> "Failed to create file",
                                   file |-> inflight.key, attempts |-> 0]
                     /\ pc' = "t_done"
                     /\ inflight' = sized
                     /\ UNCHANGED <<disk, log>>
                ELSE /\ disk' = [disk EXCEPT ![inflight.key] = "part"]
                     /\ log' = Append(log, Event("create", inflight.key))
                     /\ inflight' = sized
                     /\ pc' = "t_stream"
                     /\ UNCHANGED result
    /\ UNCHANGED <<manifest, zipWorld, artifacts, hashes, pass, todo, fi, ai,
                   dl, written, hashes0, disk0, prevHashes, prevResult,
                   cacheFile, args>>

\* The loop without the min() that caps the counter at the total.
StreamChunkUnclamped(n, outcome) ==
    /\ pc = "t_stream"
    /\ IF outcome = "chunk" THEN inflight.delivered + n <= inflight.body
       ELSE n = 1
    /\ IF outcome = "chunk"
       THEN LET downloaded ==
                    inflight.downloaded + n
            IN  /\ inflight' =
                     [inflight EXCEPT
                         !.delivered = @ + n,
                         !.in_file = @ + n,
                         !.downloaded = downloaded,
                         !.file_pb.position = downloaded,
                         !.total_pb = IF inflight.variant = "http"
                                      THEN inflight.start_position + downloaded
                                      ELSE @,
                         !.updates = @ + 1]
                /\ log' = Append(log, Event("write", inflight.key))
                /\ UNCHANGED <<pc, result>>
       ELSE /\ result' = [status |-> "error",
                          error |-> IF outcome = "stream_err"
                                    THEN "Error while downloading file"
                                    ELSE "Error while writing to file",
                          file |-> inflight.key, attempts |-> 0]
            /\ pc' = "t_done"
            /\ UNCHANGED <<inflight, log>>
    /\ UNCHANGED <<manifest, zipWorld, disk, artifacts, hashes, pass, todo, fi,
                   ai, dl, written, hashes0, disk0, prevHashes, prevResult,
                   cacheFile, args>>

\* One turn of the while loop: the next item of the stream.  "chunk": n bytes
\* arrive, are written, and the counters advance.  "stream_err": the item
\* is an error.  "write_err": write_all fails.
StreamChunk(n, outcome) ==
    /\ pc = "t_stream"
    /\ IF outcome = "chunk" THEN inflight.delivered + n <= inflight.body
       ELSE n = 1
    /\ IF outcome = "chunk"
       THEN LET downloaded ==
                    IF inflight.downloaded + n < inflight.file_size
                    THEN inflight.downloaded + n ELSE inflight.file_size
            IN  /\ inflight' =
                     [inflight EXCEPT
                         !.delivered = @ + n,
                         !.in_file = @ + n,
                         !.downloaded = downloaded,
                         !.file_pb.position = downloaded,
                         !.total_pb = IF inflight.variant = "http"
                                      THEN inflight.start_position + downloaded
                                      ELSE @,
                         !.updates = @ + 1]
                /\ log' = Append(log, Event("write", inflight.key))
                /\ UNCHANGED <<pc, result>>
       ELSE /\ result' = [status |-> "error",
                          error |-> IF outcome = "stream_err"
                                    THEN "Error while downloading file"
                                    ELSE "Error while writing to file",
                          file |-> inflight.key, attempts |-> 0]
            /\ pc' = "t_done"
            /\ UNCHANGED <<inflight, log>>
    /\ UNCHANGED <<manifest, zipWorld, disk, artifacts, hashes, pass, todo, fi,
                   ai, dl, written, hashes0, disk0, prevHashes, prevResult,
                   cacheFile, args>>

\* The stream ends: the function returns Ok(()).  The destination holds the
\* body: the content the manifest names when the response was a success with
\* a body of the declared size, the body of the error response when it was
\* not, a truncated body otherwise.
Return ==
    /\ pc = "t_stream"
    /\ inflight.delivered = inflight.body
    /\ disk' = [disk EXCEPT ![inflight.key] =
                   IF inflight.status # "200" THEN "junk"
                   ELSE IF inflight.in_file = inflight.size
                        THEN ContentOf(manifest.files[1].file_data.blake3)
                        ELSE "part"]
    /\ result' = Ok
    /\ pc' = "t_done"
    /\ UNCHANGED <<manifest, zipWorld, artifacts, hashes, pass, todo, fi, ai,
                   dl, inflight, log, written, hashes0, disk0, prevHashes,
                   prevResult, cacheFile, args>>

SpecTransfer ==
    InitTransfer /\ [][\/ \E outcome \in {"send_err", "create_err", "sent"} :
                              Request(outcome)
                       \/ \E n \in 1..MaxBody,
                             outcome \in {"chunk", "stream_err", "write_err"} :
                              StreamChunk(n, outcome)
                       \/ Return]_vars

----------------------------------------------------------------------------
(* The release tool (release_tool.rs) *)

\* The longest list of files the visited folder holds.
MaxTree == 2

\* A length in bytes as a 64-bit value: its high and its low 32-bit word.
\* `as u32` keeps the low word.
as_u32(len) == len.lo

\* rename_update_file: the name with the launcher prefix, the dots replaced
\* unless the extension is kept.
rename_update_file(file_name, keep_extension) ==
    CASE file_name = "f1.dat" ->
             IF keep_extension THEN "__launcher_f1.dat" ELSE "__launcher_f1_dat"
      [] file_name = "a1.zip" ->
             IF keep_extension THEN "__launcher_a1.zip" ELSE "__launcher_a1_zip"
      [] file_name = "a2.ZIP" ->
             IF keep_extension THEN "__launcher_a2.ZIP" ELSE "__launcher_a2_ZIP"

\* visit_archive giving the members the name the zip had before it was
\* renamed.
visit_archive_file_name(file, archive_name, files) ==
    IF ~file.zip_ok THEN [ok |-> FALSE, files |-> files]
    ELSE [ok |-> TRUE,
          files |-> files \o
              [i \in DOMAIN SelectSeq(file.members, LAMBDA m : m.is_file) |->
                  LET file_in_zip == SelectSeq(file.members,
                                               LAMBDA m : m.is_file)[i]
                  IN  [blake3 |-> file_in_zip.blake3,
                       size |-> as_u32(file_in_zip.len),
                       path |-> file_in_zip.path,
                       asset_name |-> None, archive |-> file.file_name]]]

\* visit_archive: one file entry per member of the zip that is a file, in
\* the order of the zip: [ok, files].  A zip that cannot be opened or read
\* is an error.
visit_archive(file, archive_name, files) ==
    IF ~file.zip_ok THEN [ok |-> FALSE, files |-> files]
    ELSE [ok |-> TRUE,
          files |-> files \o
              [i \in DOMAIN SelectSeq(file.members, LAMBDA m : m.is_file) |->
                  LET file_in_zip == SelectSeq(file.members,
                                               LAMBDA m : m.is_file)[i]
                  IN  [blake3 |-> file_in_zip.blake3,
                       size |-> as_u32(file_in_zip.len),
                       path |-> file_in_zip.path,
                       asset_name |-> None, archive |-> archive_name]]]

\* The folder the tool is run on, as the list of files visit_dir comes to,
\* in the order read_dir yields them, and the --rename-files flag.  A file
\* has its path relative to the folder, its name, its length and, for a zip,
\* its members (files and directories).
InitRelease ==
    /\ \E n \in 0..MaxTree, flag \in BOOLEAN :
       \E lens \in [1..n -> {[hi |-> 0, lo |-> 1], [hi |-> 1, lo |-> 0],
                             [hi |-> 1, lo |-> 1]}] :
       \E tree \in [1..n ->
              { [relative_path |-> "f1.dat", file_name |-> "f1.dat",
                 is_zip |-> FALSE, zip_ok |-> FALSE, members |-> <<>>],
                [relative_path |-> "sub/f1.dat", file_name |-> "f1.dat",
                 is_zip |-> FALSE, zip_ok |-> FALSE, members |-> <<>>],
                [relative_path |-> "update.json", file_name |-> "update.json",
                 is_zip |-> FALSE, zip_ok |-> FALSE, members |-> <<>>],
                [relative_path |-> "a1.zip", file_name |-> "a1.zip",
                 is_zip |-> TRUE, zip_ok |-> TRUE,
                 members |-> <<[path |-> "m1", is_file |-> TRUE,
                                blake3 |-> <<"c", "3">>,
                                len |-> [hi |-> 0, lo |-> 2]],
                               [path |-> "dir", is_file |-> FALSE,
                                blake3 |-> <<>>, len |-> [hi |-> 0, lo |-> 0]],
                               [path |-> "m2", is_file |-> TRUE,
                                blake3 |-> <<"d", "4">>,
                                len |-> [hi |-> 1, lo |-> 2]]>>],
                [relative_path |-> "sub/a1.zip", file_name |-> "a1.zip",
                 is_zip |-> TRUE, zip_ok |-> TRUE,
                 members |-> <<[path |-> "m3", is_file |-> TRUE,
                                blake3 |-> <<"e", "5">>,
                                len |-> [hi |-> 0, lo |-> 3]]>>],
                [relative_path |-> "a2.ZIP", file_name |-> "a2.ZIP",
                 is_zip |-> TRUE, zip_ok |-> FALSE, members |-> <<>>] }] :
           /\ \A i, j \in 1..n : i # j => tree[i] # tree[j]
           /\ manifest =
                 [tree |-> [i \in 1..n |->
                               [file |-> tree[i], len |-> lens[i],
                                blake3 |-> <<"a", "1">>]],
                  rename_files |-> flag,
                  dto |-> [archives |-> <<>>, files |-> <<>>]]
    /\ zipWorld = [a \in ArchiveNames |-> "full"]
    /\ disk = [p \in Paths |-> NoFile]
    /\ hashes = EmptyCache
    /\ InitCommon
    /\ pc = "b_visit"
    /\ cacheFile = CacheFile("missing", EmptyCache)
    /\ args = NoArgs

\* visit_dir_file for the next file of the folder.
VisitDirFile ==
    /\ pc = "b_visit"
    /\ fi <= Len(manifest.tree)
    /\ LET entry == manifest.tree[fi]
           file == entry.file
           data == manifest.dto
           size == as_u32(entry.len)
           file_name == IF manifest.rename_files
                        THEN rename_update_file(file.file_name, file.is_zip)
                        ELSE file.file_name
           visited == visit_archive(file, file_name, data.files)
       IN  IF file.relative_path = "update.json"
           THEN UNCHANGED <<manifest, pc, result>>
           ELSE IF file.is_zip /\ ~visited.ok
           THEN /\ pc' = "b_failed"
                /\ result' = [status |-> "error", error |-> "zip",
                              file |-> file.relative_path, attempts |-> 0]
                /\ UNCHANGED manifest
           ELSE IF file.is_zip
           THEN /\ manifest' = [manifest EXCEPT
                       !.dto = [archives |-> Append(data.archives,
                                     [blake3 |-> entry.blake3, size |-> size,
                                      name |-> file_name]),
                                files |-> visited.files]]
                /\ UNCHANGED <<pc, result>>
           ELSE /\ manifest' = [manifest EXCEPT
                       !.dto.files = Append(@,
                           [blake3 |-> entry.blake3, size |-> size,
                            path |-> file.relative_path,
                            asset_name |-> file_name, archive |-> None])]
                /\ UNCHANGED <<pc, result>>
    /\ fi' = fi + 1
    /\ log' = Append(log, Event("visit", manifest.tree[fi].file.relative_path))
    /\ UNCHANGED <<zipWorld, disk, artifacts, hashes, pass, todo, ai, dl,
                   inflight, written, hashes0, disk0, prevHashes, prevResult,
                   cacheFile, args>>

\* build_release_definition returns and main writes the definition.
WriteDefinition ==
    /\ pc = "b_visit"
    /\ fi > Len(manifest.tree)
    /\ pc' = "b_done"
    /\ result' = Ok
    /\ log' = Append(log, Event("write", "update.json"))
    /\ UNCHANGED <<manifest, zipWorld, disk, artifacts, hashes, pass, todo, fi,
                   ai, dl, inflight, written, hashes0, disk0, prevHashes,
                   prevResult, cacheFile, args>>

SpecRelease == InitRelease /\ [][VisitDirFile \/ WriteDefinition]_vars

----------------------------------------------------------------------------
(* Vocabulary of the properties *)

GamePcs == {"verify", "file", "archive", "fetching", "extract", "remove",
            "done", "failed", "panicked"}
DlcPcs == {"dlc_check", "dlc_file", "dlc_fetching", "dlc_done", "dlc_failed"}
LegacyPcs == {"l_start", "l_rename", "l_cleanup", "l_diff", "l_file",
              "l_fetching", "l_delete", "l_save", "l_done", "l_panicked"}

InGame == pc \in GamePcs
InDlc == pc \in DlcPcs
InLegacy == pc \in LegacyPcs

HasEvent(op, key) == \E i \in DOMAIN log : log[i] = Event(op, key)
Downloads == {i \in DOMAIN log : log[i][1] = "download"}
LastEvent == IF log = <<>> THEN Event("none", "none") ELSE log[Len(log)]

\* The content at path p of directory d is the one hash names.
Holds(d, p, hash) ==
    d[p] # NoFile /\ eq_ignore_ascii_case(get_blake3(d[p]), hash)

\* The files update_dir is responsible for in the directories of this pass.
LegacyListed ==
    {manifest.cdn_info[i] : i \in {j \in DOMAIN manifest.cdn_info :
        /\ manifest.cdn_info[j].name[1] \in Range(Dirs)
        /\ manifest.cdn_info[j].name # <<"iw4", "iw4x.dll">>}}

----------------------------------------------------------------------------
(* C1 *)

----------------------------------------------------------------------------
(* C2 *)

\* C2: on the same directory and manifest, verify_files returns the same
\* stale files and the same stale archives with an empty cache as with the
\* cache that maps every existing file to the hash of its content (in lower
\* or upper case).
C2_CacheEquivalence ==
    (InGame /\ pc # "verify"
        /\ hashes0 \in {CorrectCache(disk0), CorrectCacheUpper(disk0)}) =>
        LET empty == verify_files(manifest, disk0, EmptyCache)
        IN  /\ todo.files = empty.files
            /\ todo.archives = empty.archives

\* verify_files ran with a correct, non-empty cache and found a stale file,
\* a stale archive and an up-to-date file.
C2_Witness ==
    /\ InGame /\ pc # "verify"
    /\ hashes0 = CorrectCache(disk0)
    /\ hashes0 # EmptyCache
    /\ todo.files # <<>>
    /\ todo.archives # <<>>
    /\ Len(todo.files) < Len(manifest.files)

----------------------------------------------------------------------------
(* C3 *)

\* C3 as stated: after a pass that returned success, a second pass with the
\* same manifest downloads nothing and leaves the cache as it found it.
C3_SecondPassNoOp ==
    (InGame /\ pass = 2 /\ prevResult = Ok) =>
        /\ Downloads = {}
        /\ pc = "done" => hashes = prevHashes

----------------------------------------------------------------------------
(* C4 *)

\* The hash the differ knows locally for a file: the cache entry when there
\* is one, else the hash of the file.
KnownHash(h, key, d, p) == IF h[key] # NoEntry THEN h[key] ELSE get_blake3(d[p])

StaleFiles == {todo.files[i] : i \in DOMAIN todo.files}
StaleArchives == {todo.archives[i] : i \in DOMAIN todo.archives}

\* C4 as stated: the differ never reports up to date a file whose content
\* on disk does not hash to the manifest hash, whatever the cache holds.
C4_AsStated ==
    /\ (InGame /\ pc \notin {"verify", "panicked"}) =>
           /\ \A i \in DOMAIN manifest.files :
                  manifest.files[i] \notin StaleFiles =>
                      Holds(disk0, manifest.files[i].file_data.path,
                            manifest.files[i].file_data.blake3)
           /\ \A i \in DOMAIN manifest.archives :
                  manifest.archives[i] \notin StaleArchives =>
                      \A j \in DOMAIN manifest.archives[i].files :
                          Holds(disk0, manifest.archives[i].files[j].path,
                                manifest.archives[i].files[j].blake3)
    /\ (InDlc /\ pc # "dlc_check" /\ ~(pc = "dlc_failed" /\ Downloads = {})) =>
           \A i \in DOMAIN manifest.files :
               manifest.files[i] \notin StaleFiles =>
                   Holds(disk0, target_path(manifest.files[i]),
                         manifest.files[i].blake3)

\* C4, amended: the differ reports a file up to date exactly when the file
\* exists and the hash it knows locally - the cache entry when there is
\* one, otherwise the hash of the content - equals the manifest hash
\* ignoring case.  A cache entry that differs from the manifest hash makes
\* the file stale; one that equals it makes the file up to date without the
\* content being looked at.  An archive is up to date exactly when all its
\* members are.
C4_KnownHashDecides ==
    /\ (InGame /\ pc \notin {"verify", "panicked"}) =>
           /\ \A i \in DOMAIN manifest.files :
                  LET fd == manifest.files[i].file_data
                  IN  manifest.files[i] \notin StaleFiles <=>
                          /\ disk0[fd.path] # NoFile
                          /\ eq_ignore_ascii_case(
                                 KnownHash(hashes0, fd.path, disk0, fd.path),
                                 fd.blake3)
           /\ \A i \in DOMAIN manifest.archives :
                  manifest.archives[i] \notin StaleArchives <=>
                      \A j \in DOMAIN manifest.archives[i].files :
                          LET fd == manifest.archives[i].files[j]
                          IN  /\ disk0[fd.path] # NoFile
                              /\ eq_ignore_ascii_case(
                                     KnownHash(hashes0, fd.path, disk0, fd.path),
                                     fd.blake3)
    /\ (InDlc /\ pc # "dlc_check" /\ ~(pc = "dlc_failed" /\ Downloads = {})) =>
           \A i \in DOMAIN manifest.files :
               LET file == manifest.files[i]
               IN  file \notin StaleFiles <=>
                       /\ disk0[target_path(file)] # NoFile
                       /\ eq_ignore_ascii_case(
                              KnownHash(hashes0, cache_key(file), disk0,
                                        target_path(file)),
                              file.blake3)

\* The differ ran on a cache that names the manifest hash for a file whose
\* content is something else, and reported the file up to date; another
\* file was reported stale.
C4_Witness ==
    /\ InGame /\ pc # "verify"
    /\ todo.files # <<>>
    /\ \E i \in DOMAIN manifest.files :
           LET fd == manifest.files[i].file_data
           IN  /\ manifest.files[i] \notin StaleFiles
               /\ hashes0[fd.path] # NoEntry
               /\ disk0[fd.path] # NoFile
               /\ ~Holds(disk0, fd.path, fd.blake3)

----------------------------------------------------------------------------
(* C5 *)

\* C5: the download loop makes at most the configured number of attempts
\* (MAX_DOWNLOAD_ATTEMPTS for files and archives of game.rs,
\* max_retry_attempts for DLC files); when it gives up it has made exactly
\* that many and returns the download-failed error naming the file; it
\* returns success only after an attempt that left at the target a content
\* hashing to the manifest hash.
C5_BoundedAttempts ==
    /\ (InGame /\ dl # NoLoop) =>
           /\ dl.attempts <= MAX_DOWNLOAD_ATTEMPTS
           /\ (pc # "fetching" /\ ~dl.download_successful) =>
                  /\ dl.attempts = MAX_DOWNLOAD_ATTEMPTS
                  /\ pc = "failed"
                  /\ result = [status |-> "error", error |-> "Failed to download",
                               file |-> dl.file_data.path,
                               attempts |-> MAX_DOWNLOAD_ATTEMPTS]
           /\ LastEvent = Event("verified", dl.file_data.path) =>
                  /\ dl.attempts >= 1
                  /\ Holds(IF dl.kind = "file" THEN disk ELSE artifacts,
                           dl.file_data.path, dl.file_data.blake3)
    /\ (InDlc /\ dl # NoLoop) =>
           /\ dl.attempts <= max_retry_attempts
           /\ (pc # "dlc_fetching" /\ ~dl.download_successful) =>
                  /\ dl.attempts = max_retry_attempts
                  /\ pc = "dlc_failed"
                  /\ result = [status |-> "error", error |-> "DownloadFailed",
                               file |-> dl.file_data.asset_name,
                               attempts |-> max_retry_attempts]
           /\ LastEvent = Event("verified", target_path(dl.file_data)) =>
                  /\ dl.attempts >= 1
                  /\ Holds(disk, target_path(dl.file_data), dl.file_data.blake3)

\* A DLC download gave up after its last attempt.
C5_Witness ==
    /\ pc = "dlc_failed"
    /\ dl # NoLoop
    /\ dl.attempts = max_retry_attempts
    /\ result.error = "DownloadFailed"

----------------------------------------------------------------------------
(* C6 *)

\* C6 as stated: an archive all of whose members are on disk with the
\* manifest hashes when the pass starts is neither downloaded nor extracted
\* in that pass.
C6_AsStated ==
    InGame =>
        \A i \in DOMAIN manifest.archives :
            LET archive == manifest.archives[i]
                name == archive.file_data.path
            IN  (\A j \in DOMAIN archive.files :
                     Holds(disk0, archive.files[j].path, archive.files[j].blake3))
                => /\ ~HasEvent("download", name)
                   /\ ~HasEvent("already_downloaded", name)
                   /\ ~HasEvent("extracted", name)
                   /\ ~HasEvent("extract_failed", name)

----------------------------------------------------------------------------
(* C7 *)

\* The archive extract_archive was last called on, its member paths, and
\* the members that were missing or had another hash before the call (no
\* step of the pass before the call writes a member of the archive).
Extracting == todo.archives[ai]
MemberPaths(archive) == {archive.files[j].path : j \in DOMAIN archive.files}
Remaining(archive) ==
    {archive.files[j].path : j \in {k \in DOMAIN archive.files :
        ~Holds(disk0, archive.files[k].path, archive.files[k].blake3)}}
AfterExtract ==
    /\ InGame
    /\ \/ pc = "remove"
       \/ pc = "failed" /\ result.error = "Could not find file"

----------------------------------------------------------------------------
(* C8 *)

\* The position of an event in the record of the pass (0: not there).
IndexOf(op, key) ==
    IF HasEvent(op, key)
    THEN CHOOSE i \in DOMAIN log : log[i] = Event(op, key)
    ELSE 0

\* C8: with the rename a.dat -> b.dat, a directory where only a.dat is
\* present with the content the list names for b.dat, and no cache entry for
\* the absent b.dat: a.dat is renamed before the diff, the diff finds b.dat
\* up to date, and b.dat is not downloaded - nothing is when the other file
\* of the directory is up to date too.
C8_RenameBeforeDiff ==
    (/\ InLegacy
     /\ HasEvent("update_dir", "iw4")
     /\ disk0["b.dat"] = NoFile
     /\ Holds(disk0, "a.dat", manifest.cdn_info[1].blake3)
     /\ hashes0["b.dat"] = NoEntry) =>
        /\ 0 < IndexOf("renamed", "a.dat")
        /\ IndexOf("renamed", "a.dat") < IndexOf("update_dir", "iw4")
        /\ ~HasEvent("download", "b.dat")
        /\ disk["a.dat"] = NoFile
        /\ disk["b.dat"] = disk0["a.dat"]
        /\ hashes["b.dat"] = to_lowercase(manifest.cdn_info[1].blake3)
        /\ (Holds(disk0, "c.dat", manifest.cdn_info[2].blake3)
            /\ hashes0["c.dat"] \in {NoEntry, to_lowercase(manifest.cdn_info[2].blake3)}
            /\ ~args.bonus_content)
           => Downloads = {}

\* The pass ended after renaming a.dat and downloading nothing.
C8_Witness ==
    /\ pc = "l_done"
    /\ disk0["b.dat"] = NoFile
    /\ Holds(disk0, "a.dat", manifest.cdn_info[1].blake3)
    /\ hashes0["b.dat"] = NoEntry
    /\ HasEvent("renamed", "a.dat")
    /\ Holds(disk, "b.dat", manifest.cdn_info[1].blake3)
    /\ Downloads = {}

----------------------------------------------------------------------------
(* C9 *)

ArchiveStarts ==
    {i \in DOMAIN log : /\ log[i][1] \in {"download", "already_downloaded"}
                        /\ log[i][2] \in ArchiveNames}

\* C9: every stale standalone file is downloaded and verified before the
\* first archive download starts; an archive's download, extraction and
\* artifact removal are over, in that order, before the next archive is
\* started; a request is in flight only inside the one download loop, so no
\* two downloads run at once and nothing is extracted during a download.
C9_Sequential ==
    InGame =>
        /\ \A i \in ArchiveStarts :
               \A f \in DOMAIN todo.files :
                   \E k \in 1..(i - 1) :
                       log[k] = Event("verified", todo.files[f].file_data.path)
        /\ \A m, n \in DOMAIN todo.archives :
               LET x == todo.archives[m].file_data.path
                   y == todo.archives[n].file_data.path
               IN  (m < n /\ \E i \in ArchiveStarts : log[i][2] = y) =>
                       LET i == CHOOSE j \in ArchiveStarts : log[j][2] = y
                       IN  \E a, b, c \in 1..(i - 1) :
                               /\ a < b /\ b < c
                               /\ a \in ArchiveStarts /\ log[a][2] = x
                               /\ log[b] = Event("extracted", x)
                               /\ log[c] = Event("removed", x)
        /\ inflight # NoReq =>
               /\ pc = "fetching"
               /\ inflight.key = dl.file_data.path
        /\ \A i \in Downloads :
               i < Len(log) => log[i + 1] \in {Event("verified", log[i][2]),
                                               Event("failed", log[i][2])}

\* A pass that downloaded a file and then two archives is done.
C9_Witness ==
    /\ InGame /\ pc = "done"
    /\ Len(todo.files) >= 1
    /\ Len(todo.archives) = 2
    /\ Cardinality(Downloads) = 3

----------------------------------------------------------------------------
(* C10 *)

\* C10: when the differ finds nothing stale, no download is started and
\* nothing is extracted: download_files returns success at once, and
\* update_dir returns to update, which goes on to the end of the pass, where
\* the cache - with what the differ added - is written to cache.json (or
\* the failure to write it is logged).
C10_NothingStale ==
    /\ (InGame /\ pc \notin {"verify", "panicked"}
           /\ todo.files = <<>> /\ todo.archives = <<>>) =>
           /\ pc = "done"
           /\ result = Ok
           /\ log = <<Event("verify_files", "all")>>
           /\ disk = disk0
    /\ (InLegacy /\ todo.files = <<>>) =>
           \A i, j \in DOMAIN log :
               (i < j /\ log[i][1] = "update_dir") =>
                   \/ \E k \in (i + 1)..Len(log) : log[k][1] = "update_dir"
                   \/ log[j][1] \notin {"download", "verified", "accepted",
                                        "panicked"}
    /\ pc = "l_done" =>
           \/ /\ cacheFile = CacheFile("json", hashes)
              /\ LastEvent = Event("save_cache", "all")
           \/ LastEvent = Event("save_failed", "all")

\* A pass of main.rs in which no directory had a stale file ended with the
\* entries the differ added written to cache.json.
C10_Witness ==
    /\ pc = "l_done"
    /\ Downloads = {}
    /\ cacheFile.kind = "json"
    /\ cacheFile.hashes # hashes0
    /\ cacheFile.hashes = hashes

----------------------------------------------------------------------------
(* C11 *)

\* The step of a pass of main.rs an event belongs to.
StepOf(e) ==
    CASE e[1] = "get_cache" -> 0
      [] e[1] = "renamed" -> 1
      [] e[1] = "removed" -> 2
      [] e[1] \in {"update_dir", "download", "verified", "accepted",
                   "panicked"} -> 3
      [] e[1] = "deleted" -> 4
      [] e[1] \in {"save_cache", "save_failed"} -> 5
      [] OTHER -> 3

\* C11: a pass goes through rename, diff, then up-to-date or
\* download/extract, then deletions, then the cache persist, in that order;
\* it ends without reaching the persist step only by an abort raised while
\* downloading or extracting; the rename step, the diff step (hashing an
\* existing file included) and the deletion step never abort the pass.
C11_StepsInOrderAbortOnlyInTransfer ==
    /\ InLegacy =>
           /\ \A i, j \in DOMAIN log : i < j => StepOf(log[i]) <= StepOf(log[j])
           /\ pc = "l_done" => StepOf(LastEvent) = 5
           /\ pc = "l_panicked" => LastEvent[1] = "panicked"
    /\ (InGame /\ pc \in {"failed", "panicked"}) =>
           LastEvent[1] \in {"failed", "extract_failed", "extract_io_error"}

----------------------------------------------------------------------------
(* C12 *)

\* What C12 says makes a file stale: no file at the target path, or a
\* locally known hash that differs from the manifest hash.
MissingOrDiffers(h, key, d, p, blake3) ==
    \/ d[p] = NoFile
    \/ to_lowercase(KnownHash(h, key, d, p)) # to_lowercase(blake3)

\* C12: the differ reports a file stale if and only if its target path does
\* not exist, or its locally known hash - the cache entry for its path when
\* there is one, otherwise the hash computed from the file - differs from
\* the manifest hash.  This holds for verify_file_needs_download on every
\* file and archive member, for the list of stale files verify_files
\* returns, and for the list get_outdated_files returns.
C12_StaleIffMissingOrHashDiffers ==
    /\ (InGame /\ pc \notin {"verify", "panicked"}) =>
           /\ \A fd \in InstallEntries(manifest) :
                  verify_file_needs_download(fd, disk0, hashes0).result <=>
                      MissingOrDiffers(hashes0, fd.path, disk0, fd.path, fd.blake3)
           /\ \A i \in DOMAIN manifest.files :
                  LET fd == manifest.files[i].file_data
                  IN  (\E j \in DOMAIN todo.files : todo.files[j] = manifest.files[i])
                          <=> MissingOrDiffers(hashes0, fd.path, disk0, fd.path,
                                               fd.blake3)
    /\ (InDlc /\ pc # "dlc_check" /\ ~(pc = "dlc_failed" /\ Downloads = {})) =>
           \A i \in DOMAIN manifest.files :
               LET file == manifest.files[i]
               IN  (\E j \in DOMAIN todo.files : todo.files[j] = file)
                       <=> MissingOrDiffers(hashes0, cache_key(file), disk0,
                                            target_path(file), file.blake3)

\* The differ ran on a directory where one file without a cache entry was
\* hashed and found up to date, and another file that exists was reported
\* stale because of its cache entry.
C12_Witness ==
    /\ InGame /\ pc \notin {"verify", "panicked"}
    /\ \E i, j \in DOMAIN manifest.files :
           LET f == manifest.files[i]
               g == manifest.files[j]
           IN  /\ f \notin StaleFiles
               /\ hashes0[f.file_data.path] = NoEntry
               /\ disk0[f.file_data.path] # NoFile
               /\ g \in StaleFiles
               /\ hashes0[g.file_data.path] # NoEntry
               /\ disk0[g.file_data.path] # NoFile

----------------------------------------------------------------------------
(* C13 *)

\* Two hex hashes that differ at most in letter case.
SameHex(a, b) == to_lowercase(a) = to_lowercase(b)

\* The differs of game.rs and dlc.rs report no file stale whose locally
\* known hash equals the manifest hash up to letter case.
C13_GameAndDlcDiffers ==
    /\ (InGame /\ pc \notin {"verify", "panicked"}) =>
           \A i \in DOMAIN manifest.files :
               LET fd == manifest.files[i].file_data
               IN  (/\ disk0[fd.path] # NoFile
                    /\ SameHex(KnownHash(hashes0, fd.path, disk0, fd.path),
                               fd.blake3))
                       => manifest.files[i] \notin StaleFiles
    /\ (InDlc /\ pc # "dlc_check" /\ ~(pc = "dlc_failed" /\ Downloads = {})) =>
           \A i \in DOMAIN manifest.files :
               LET file == manifest.files[i]
               IN  (/\ disk0[target_path(file)] # NoFile
                    /\ SameHex(KnownHash(hashes0, cache_key(file), disk0,
                                         target_path(file)), file.blake3))
                       => file \notin StaleFiles

\* The post-download verification and the pre-extraction member check take
\* a content for verified when the expected hash is its hash in upper case.
C13_Verifications ==
    InGame =>
        \A fd \in InstallEntries(manifest) :
            LET upper == [fd EXCEPT !.blake3 = to_uppercase(fd.blake3)]
                c == ContentOf(fd.blake3)
            IN  /\ verify_downloaded_file(c, upper.blake3)
                /\ member_is_current(upper, [disk EXCEPT ![fd.path] = c])

\* The differ of update_dir reports no file stale whose locally known hash
\* equals the listed hash up to letter case.
C13_UpdateDirDiffer ==
    UpdateDir =>
        \A i \in DOMAIN manifest.cdn_info :
            LET file == manifest.cdn_info[i]
                file_name == file.name[2]
            IN  (/\ file.name[1] = Dirs[ai]
                 /\ file.name # <<"iw4", "iw4x.dll">>
                 /\ disk[file_name] # NoFile
                 /\ SameHex(KnownHash(hashes, file_name, disk, file_name),
                            file.blake3))
                    => \A j \in DOMAIN todo'.files : todo'.files[j] # file

\* C13: every hash comparison made by the sync - the differ for game files,
\* the differ for DLC files, the differ in update_dir, the post-download
\* verification and the pre-extraction member check - treats two hex hashes
\* that differ only in letter case as equal, also when the local hash is a
\* cache entry stored in upper case.
C13_CaseInsensitive ==
    /\ []C13_GameAndDlcDiffers
    /\ []C13_Verifications
    /\ [][C13_UpdateDirDiffer]_vars

\* The comparisons of game.rs and dlc.rs alone.
C13_ExceptUpdateDir == C13_GameAndDlcDiffers /\ C13_Verifications

----------------------------------------------------------------------------
(* C14 *)

\* What is at the destination of the download loop of game.rs.
Destination == IF dl.kind = "file" THEN disk[dl.file_data.path]
               ELSE artifacts[dl.file_data.path]

\* download_single_file removes the target when the downloaded content does
\* not hash to the manifest hash.
C14_DlcDeletes ==
    [][DlcAttempt("ok_junk") => disk'[target_path(dl.file_data)] = NoFile]_vars

\* C14: each time a downloaded file's hash does not match the manifest hash,
\* the file written at the destination path is deleted before the next
\* download attempt for that file starts.  (dl.slept is set by the attempt
\* of download_file_to_disk that ended in a mismatch with attempts left.)
C14_DeletedBeforeNextAttempt ==
    /\ [][(StartAttempt /\ dl.slept) => Destination = NoFile]_vars
    /\ C14_DlcDeletes

----------------------------------------------------------------------------
(* C15 *)

\* C15: once one file or archive has exhausted its download attempts, the
\* pass returns that error and no later file or archive of the manifest is
\* downloaded or extracted in that pass: the exhaustion is the last event
\* of the pass, the result is the error naming that file, and nothing on
\* disk or in the cache changes afterwards.
C15_ExhaustedEndsPass ==
    /\ [](\A i \in DOMAIN log :
              ((InGame \/ InDlc) /\ log[i][1] = "failed") =>
                  /\ i = Len(log)
                  /\ pc \in {"failed", "dlc_failed"}
                  /\ inflight = NoReq
                  /\ result = IF InGame THEN DownloadFailed(dl.file_data)
                              ELSE DlcDownloadFailed(dl.file_data)
                  /\ log[i][2] = IF InGame THEN dl.file_data.path
                                 ELSE target_path(dl.file_data))
    /\ [][(pc \in {"failed", "dlc_failed"}) =>
              (disk' = disk /\ artifacts' = artifacts /\ hashes' = hashes
                  /\ Downloads' = {})]_vars

\* The first stale file of a pass of download_files exhausted its attempts
\* while another stale file and a stale archive were still to come.
C15_Witness ==
    /\ InGame /\ pc = "failed"
    /\ Len(todo.files) >= 2
    /\ LastEvent = Event("failed", todo.files[1].file_data.path)
    /\ todo.archives # <<>>
    /\ dl.attempts = MAX_DOWNLOAD_ATTEMPTS

----------------------------------------------------------------------------
(* C16 *)

\* The file entries of the release definition that name an archive which is
\* not among the declared archives.
Undeclared ==
    {i \in DOMAIN manifest.dto.files :
        /\ manifest.dto.files[i].archive # None
        /\ \A a \in DOMAIN manifest.dto.archives :
               manifest.dto.archives[a].name # manifest.dto.files[i].archive}

\* The declared archives without an asset in the release, and the file
\* entries outside archives whose asset is not in the release.
ArchivesWithoutAsset ==
    {a \in DOMAIN manifest.dto.archives :
        \A k \in DOMAIN manifest.release.assets :
            manifest.release.assets[k].name # manifest.dto.archives[a].name}
FilesWithoutAsset ==
    {i \in DOMAIN manifest.dto.files :
        /\ manifest.dto.files[i].archive = None
        /\ manifest.dto.files[i].asset_name # None
        /\ \A k \in DOMAIN manifest.release.assets :
               manifest.release.assets[k].name # manifest.dto.files[i].asset_name}

\* C16 as stated: converting a manifest in which a file entry names an
\* archive that is not among the declared archives fails with an error
\* naming the file and the archive, and yields no update data.
C16_AsStated ==
    (pc = "c_done" /\ Undeclared # {}) =>
        /\ ~manifest.converted
        /\ \E i \in Undeclared : result = ArchiveNotFoundError(manifest.dto.files[i])

\* C16, amended: such a conversion always fails and yields no update data,
\* and the entry is never skipped; the error is that of the first failure
\* met.  It names the file and the archive of the first such entry when
\* every declared archive has its release asset and no earlier file entry
\* names a missing release asset; otherwise it names the archive or the
\* earlier file whose asset is missing.
C16_FailsWithFirstError ==
    (pc = "c_done" /\ Undeclared # {}) =>
        LET first == CHOOSE i \in Undeclared : \A j \in Undeclared : i <= j
            earlier == {i \in FilesWithoutAsset : i < first}
        IN  /\ ~manifest.converted
            /\ manifest.update_data = UpdateData(<<>>, <<>>)
            /\ result.status = "error"
            /\ (ArchivesWithoutAsset = {} /\ earlier = {}) =>
                   result = ArchiveNotFoundError(manifest.dto.files[first])
            /\ ArchivesWithoutAsset # {} =>
                   \E a \in ArchivesWithoutAsset :
                       result = MissingAssetError(manifest.dto.archives[a],
                                                  manifest.release)
            /\ (ArchivesWithoutAsset = {} /\ earlier # {}) =>
                   \E i \in earlier :
                       result = AssetNotFoundError(manifest.dto.files[i])

\* A definition whose second file entry names an undeclared archive, after
\* a first entry that was added to a declared archive, was converted: the
\* error names the second entry and its archive.
C16_Witness ==
    /\ pc = "c_done"
    /\ Len(manifest.dto.files) = 2
    /\ Undeclared = {2}
    /\ manifest.dto.files[1].archive = "a1"
    /\ manifest.dto.archives # <<>>
    /\ result = ArchiveNotFoundError(manifest.dto.files[2])
    /\ result.file = "m3" /\ result.archive = "a3"

----------------------------------------------------------------------------
(* C17 *)

\* C17: when extract_archive returns success, every declared member of the
\* archive exists at its install path with a content hash equal to that
\* member's manifest hash; an extracted member whose content does not hash
\* to the manifest value makes the extraction fail instead.
C17_ExtractedMembersVerified ==
    (InGame /\ pc = "remove") =>
        \A j \in DOMAIN Extracting.files :
            Holds(disk, Extracting.files[j].path, Extracting.files[j].blake3)

----------------------------------------------------------------------------
(* C18 *)

\* The events of the pass about one archive.
EventsOf(ops, name) == {i \in DOMAIN log : log[i][1] \in ops /\ log[i][2] = name}

----------------------------------------------------------------------------
(* C19 *)

\* C19: after a pass completes successfully, no downloaded archive artifact
\* remains on disk: each archive file is deleted right after all its
\* declared members have been processed - the removal is the step that
\* follows the extraction, and a removed artifact is not written again in
\* the pass.
C19_NoArtifactAfterSuccess ==
    InGame =>
        /\ (pc = "done" /\ result = Ok) =>
               \A a \in ArchiveNames : artifacts[a] = NoFile
        /\ \A i \in DOMAIN log :
               /\ log[i][1] = "extracted" =>
                      IF i = Len(log) THEN pc = "remove"
                      ELSE log[i + 1] = Event("removed", log[i][2])
               /\ log[i][1] = "removed" => artifacts[log[i][2]] = NoFile

\* A pass that downloaded and extracted two archives completed with
\* success.
C19_Witness ==
    /\ InGame /\ pc = "done" /\ result = Ok
    /\ HasEvent("download", "a1") /\ HasEvent("removed", "a1")
    /\ HasEvent("download", "a2") /\ HasEvent("removed", "a2")
    /\ \A a \in ArchiveNames : artifacts[a] = NoFile

----------------------------------------------------------------------------
(* C20 *)

\* C20: hash-cache I/O never fails a pass.  Loading a missing, empty (or
\* whitespace-only) or unparseable cache file returns an empty cache and the
\* pass goes on; a failure to serialize or write the cache on save is logged
\* and leaves the result of the pass unchanged: the pass ends as it ends
\* when the cache is written, with the same directory and the same result.
C20_CacheIoNeverFails ==
    /\ [](/\ \A kind \in {"missing", "blank", "garbage"} :
                get_cache(CacheFile(kind, EmptyCache)) = EmptyCache
          /\ (InLegacy /\ pc \notin {"l_start", "l_done"} /\ ~args.force) =>
                hashes0 = IF cacheFile.kind = "json" THEN cacheFile.hashes
                          ELSE EmptyCache
          /\ (InLegacy /\ LastEvent[1] \in {"save_cache", "save_failed"}) =>
                (pc = "l_done" /\ result = Ok)
          /\ LastEvent[1] = "save_cache" => cacheFile = CacheFile("json", hashes))
    /\ [][(pc = "l_start") => (pc' = "l_rename" /\ result' = result)]_vars
    /\ [][(pc = "l_save") =>
              (pc' = "l_done" /\ result' = Ok /\ disk' = disk /\ hashes' = hashes
                  /\ LastEvent'[1] \in {"save_cache", "save_failed"})]_vars

\* A pass that loaded a blank cache.json and filled the cache ended with
\* success although the cache could not be saved.
C20_Witness ==
    /\ pc = "l_done"
    /\ result = Ok
    /\ LastEvent = Event("save_failed", "all")
    /\ cacheFile.kind = "blank"
    /\ hashes0 = EmptyCache
    /\ hashes # EmptyCache
    /\ ~args.force

----------------------------------------------------------------------------
(* C21 *)

\* C21: when a pass ends early because a download failed, the hash cache is
\* still written to disk and holds the entries verified before the failure:
\* every entry the pass had in memory when the download failed is in
\* cache.json afterwards.
C21_PartialProgressSaved ==
    (InLegacy /\ pc = "l_panicked" /\ LastEvent[1] = "panicked") =>
        \A key \in Keys :
            hashes[key] # NoEntry => get_cache(cacheFile)[key] = hashes[key]

----------------------------------------------------------------------------
(* C22 *)

\* C22: at the end of a successful pass the hash cache holds, for every
\* standalone file and every archive member the manifest declares, an entry
\* that maps its path to the lower-case manifest hash, the members extracted
\* in this pass included.
C22_CacheCompleteAfterSuccess ==
    (InGame /\ pc = "done" /\ result = Ok) =>
        \A entry \in InstallEntries(manifest) :
            hashes[entry.path] = to_lowercase(entry.blake3)

----------------------------------------------------------------------------
(* C23 *)

\* The paths game.delete names.
DeclaredDeletions == Range(manifest.game.delete)

\* The positions of update before its loop over game.delete.
BeforeDeletions ==
    pc \in {"l_start", "l_rename", "l_cleanup", "l_diff", "l_file", "l_fetching",
            "l_panicked"}

\* C23 as stated: the declared deletions are applied only after every
\* download of the pass has finished; no declared path is deleted before or
\* during the download phase.
C23_AsStated ==
    (InLegacy /\ BeforeDeletions) =>
        /\ \A i \in DOMAIN log : log[i][1] # "deleted"
        /\ \A p \in DeclaredDeletions : disk0[p] # NoFile => disk[p] # NoFile

\* C23: the loop over the declared deletions runs only after every download
\* of the pass has finished: no download follows a deletion and nothing is
\* deleted by that loop before the last directory is done.  Before it a
\* declared path loses its file only when it is an unlisted file below iw4x
\* or zone/patch, which the cleanup scan of the iw4 engine removes before the
\* diff.
C23_DeletionLoopAfterDownloads ==
    InLegacy =>
        /\ BeforeDeletions =>
               /\ \A i \in DOMAIN log : log[i][1] # "deleted"
               /\ \A p \in DeclaredDeletions :
                      (disk0[p] # NoFile /\ disk[p] = NoFile) =>
                          /\ p \in ScanPaths
                          /\ manifest.game.engine = "iw4"
                          /\ HasEvent("removed", p)
        /\ \A i, j \in DOMAIN log :
               (i < j /\ log[i][1] = "deleted") =>
                   log[j][1] \in {"deleted", "save_cache", "save_failed"}

C23_Witness ==
    /\ InLegacy /\ pc = "l_save"
    /\ disk0["old.dat"] # NoFile /\ disk0["iw4x/d2.iwd"] # NoFile
    /\ HasEvent("verified", "c.dat")
    /\ HasEvent("removed", "iw4x/d2.iwd")
    /\ LastEvent = Event("deleted", "old.dat")
    /\ IndexOf("removed", "iw4x/d2.iwd") < IndexOf("download", "c.dat")
    /\ IndexOf("verified", "c.dat") < IndexOf("deleted", "old.dat")

----------------------------------------------------------------------------
(* C24 *)

\* The renames, or the deletions, have just been applied again to the
\* directory an earlier application of them left.
RenamesReapplied ==
    \/ pc = "r_rename" /\ pass > 2
    \/ pc = "r_delete" /\ pass = 1
DeletionsReapplied == pc \in {"r_delete", "r_done"} /\ pass > 2

RenameSources == {manifest.game.rename[i][1] : i \in DOMAIN manifest.game.rename}
RenameTargets == {manifest.game.rename[i][2] : i \in DOMAIN manifest.game.rename}

\* C24 as stated: applying the declared renames, or the declared deletions,
\* a second time to a directory where they were already applied changes
\* nothing: every rename and every deletion is skipped.
C24_AsStated ==
    (RenamesReapplied \/ DeletionsReapplied) => (disk = disk0 /\ log = <<>>)

\* C24: applying the declared deletions again changes nothing and every
\* deletion is skipped; applying the declared renames again changes nothing
\* and every rename is skipped when no path is both the source of one
\* rename and the target of another.  No application ends the caller.
C24_ReapplyingChangesNothing ==
    /\ DeletionsReapplied => (disk = disk0 /\ log = <<>>)
    /\ (RenamesReapplied /\ RenameSources \cap RenameTargets = {}) =>
           (disk = disk0 /\ log = <<>>)
    /\ pc \in {"r_rename", "r_delete", "r_done"} => result = NotReturned
    /\ (pc = "r_rename" /\ pass = 2 /\ RenameSources \cap RenameTargets = {}) =>
           \A i \in DOMAIN log : log[i][1] = "renamed" /\ disk0[log[i][2]] # NoFile

C24_Witness ==
    /\ pc = "r_done" /\ pass > 2
    /\ disk = disk0 /\ log = <<>>
    /\ manifest.game.rename = << <<"a.dat", "b.dat">>, <<"c.dat", "b.dat">> >>
    /\ manifest.game.delete = <<"old.dat", "c.dat">>
    /\ disk["b.dat"] = ContentOf(cdn_info[1].blake3)
    /\ disk["a.dat"] = NoFile /\ disk["old.dat"] = NoFile

----------------------------------------------------------------------------
(* C25 *)

\* The files of the list update_dir looks at for a directory.
ListedIn(remote_dir) ==
    {manifest.cdn_info[i] : i \in {j \in DOMAIN manifest.cdn_info :
        /\ manifest.cdn_info[j].name[1] = remote_dir
        /\ manifest.cdn_info[j].name # <<"iw4", "iw4x.dll">>}}

\* C25: in force mode the pass starts from an empty hash cache whatever the
\* cache file holds, so no file is judged up to date from a previously
\* stored entry: every existing file of the list is hashed from disk, and
\* the differ asks for it exactly when it is missing or that hash differs.
C25_ForceStartsEmpty ==
    (InLegacy /\ args.force) =>
        /\ pc # "l_start" => hashes0 = EmptyCache
        /\ (LastEvent[1] = "update_dir" /\ pc # "l_panicked") =>
               \A file \in ListedIn(LastEvent[2]) :
                   file \in Range(todo.files)
                       <=> \/ disk[file.name[2]] = NoFile
                           \/ get_blake3(disk[file.name[2]]) # to_lowercase(file.blake3)
        /\ (LastEvent[1] = "update_dir" /\ pc = "l_panicked") =>
               \E file \in ListedIn(LastEvent[2]) :
                   get_blake3(disk[file.name[2]]) = HashErr

C25_Witness ==
    /\ InLegacy /\ args.force
    /\ cacheFile.kind = "json"
    /\ cacheFile.hashes["c.dat"] = to_lowercase(cdn_info[2].blake3)
    /\ disk["c.dat"] = "junk"
    /\ LastEvent = Event("update_dir", "iw4")
    /\ cdn_info[2] \in Range(todo.files)

----------------------------------------------------------------------------
(* C26 *)

\* The text after the last '.' of an asset name (the whole name when it has
\* no '.').
LastPiece(asset_name) == asset_name[Len(asset_name)]

----------------------------------------------------------------------------
(* C27 *)

\* C27: when the differ finds no cache entry for an existing file and
\* computes its hash from disk, it stores that computed hash in the cache
\* whether or not it matches the manifest hash.
C27_FreshHashStored ==
    /\ (InGame /\ pc \notin {"verify", "panicked"}) =>
           \A i \in DOMAIN manifest.files :
               LET file_data == manifest.files[i].file_data
               IN  (disk0[file_data.path] # NoFile /\ hashes0[file_data.path] = NoEntry)
                       => hashes[file_data.path] = get_blake3(disk0[file_data.path])
    /\ (InDlc /\ pc # "dlc_check" /\ result.status # "error") =>
           \A i \in DOMAIN manifest.files :
               LET file == manifest.files[i]
               IN  (disk0[file_path(file)] # NoFile /\ hashes0[cache_key(file)] = NoEntry)
                       => hashes[cache_key(file)] = get_blake3(disk0[file_path(file)])

----------------------------------------------------------------------------
(* C28 *)

\* A request URL that ends in '?' and a random string.
CacheBusted(url) == Len(url) > 2 /\ url[Len(url) - 1] = "?"

\* C28 for download_file_to_disk and update_dir.
C28_GameAndUpdateDir ==
    /\ (InGame /\ inflight # NoReq) =>
           /\ CacheBusted(inflight.url) <=> dl.attempts > 1
           /\ inflight.url[1] = dl.url
    /\ (InLegacy /\ dl # NoLoop) =>
           \A i \in DOMAIN dl.requested :
               /\ CacheBusted(dl.requested[i]) <=> i > 1
               /\ SubSeq(dl.requested[i], 1, 2) = dl.url

\* C28: for one file the first download attempt requests the unmodified URL
\* and every later attempt requests the URL suffixed with '?' and a random
\* string, in every download loop (game files and archives, DLC files,
\* update_dir).
C28_CacheBustAfterFirst ==
    /\ C28_GameAndUpdateDir
    /\ (InDlc /\ dl # NoLoop) =>
           \A i \in DOMAIN dl.requested :
               /\ CacheBusted(dl.requested[i]) <=> i > 1
               /\ SubSeq(dl.requested[i], 1, 2) = dl.url

----------------------------------------------------------------------------
(* C29 *)

\* C29 for download_single_file: the loop has slept before every attempt
\* but the first, and not after the last.
C29_DlcWaits ==
    (InDlc /\ dl # NoLoop) =>
        /\ (pc = "dlc_fetching" /\ dl.attempts >= 1) => dl.slept
        /\ pc = "dlc_failed" => ~dl.slept

\* C29: between any two consecutive download attempts for the same file the
\* loop waits the fixed retry delay, whether the earlier attempt failed by
\* transport error or by hash mismatch, and it does not wait after the last
\* attempt.
C29_WaitsBetweenAttempts ==
    /\ C29_DlcWaits
    /\ (InGame /\ dl # NoLoop) =>
           /\ (/\ pc = "fetching" /\ inflight = NoReq
               /\ dl.attempts >= 1 /\ ~dl.download_successful) => dl.slept
           /\ pc = "failed" => ~dl.slept

----------------------------------------------------------------------------
(* C30 *)

\* C30: when verify_files returns, the position of the checking-progress
\* counter equals its length, get_total_verify_count (the standalone files
\* plus the members of all archives), for every manifest, archives whose
\* member scan stops at the first stale member included.
C30_ProgressCountsEveryEntry ==
    (InGame /\ pc \notin {"verify", "panicked"} /\ LastEvent[1] = "verify_files") =>
        /\ todo.pb_len = Len(manifest.files) + Len(Members(manifest))
        /\ todo.pb_pos = todo.pb_len


----------------------------------------------------------------------------
(* C31 *)

----------------------------------------------------------------------------
(* C32 *)

\* C32: download_file_progress does not read the response status: when the
\* response is a non-success one, the call fails only for a transport or
\* file error, and otherwise returns Ok with the whole body of the response
\* written to the destination, a content whose hash is not the one the
\* manifest declares.
C32_StatusNotLookedAt ==
    (pc = "t_done" /\ inflight.status # "200") =>
        \/ /\ result.status = "error"
           /\ result.error \in {"Failed to GET", "Failed to create file",
                                "Error while downloading file",
                                "Error while writing to file"}
        \/ /\ result = Ok
           /\ inflight.in_file = inflight.body
           /\ disk[inflight.key] = "junk"
           /\ ~Holds(disk, inflight.key, manifest.files[1].file_data.blake3)

\* A "not found" response with a body was fetched over a good file: the call
\* returned Ok and the file now holds the body.
C32_Witness ==
    /\ pc = "t_done" /\ result = Ok
    /\ inflight.status = "404" /\ inflight.body > 0
    /\ inflight.in_file = inflight.body
    /\ Holds(disk0, "f1", manifest.files[1].file_data.blake3)
    /\ disk["f1"] = "junk"

----------------------------------------------------------------------------
(* C36 *)

\* C36: when send() fails, download_file_progress returns the error without
\* creating or writing the destination: the directory is as it was when the
\* call was entered.
C36_SendErrorLeavesFile ==
    (result.status = "error" /\ result.error = "Failed to GET") =>
        /\ pc = "t_done"
        /\ disk = disk0
        /\ log = <<>>
        /\ inflight.in_file = 0

\* The request failed over a file that was there: it still holds its content.
C36_Witness ==
    /\ pc = "t_done"
    /\ result.status = "error" /\ result.error = "Failed to GET"
    /\ disk0["f1"] = "c1" /\ disk["f1"] = "c1"


----------------------------------------------------------------------------
(* C33 *)

\* C33: when into_domain succeeds, every file entry of the definition is in
\* the update data, as a standalone file or as a member of an archive, and
\* the update data holds as many files and members as the definition has
\* file entries.
C33_NoEntryDropped ==
    (pc = "c_done" /\ manifest.converted) =>
        /\ \A i \in DOMAIN manifest.dto.files :
               LET file_dto == manifest.dto.files[i]
               IN  UpdateFileData(file_dto.blake3, file_dto.size, file_dto.path)
                       \in InstallEntries(manifest.update_data)
        /\ Len(manifest.update_data.files) + Len(Members(manifest.update_data))
               = Len(manifest.dto.files)


----------------------------------------------------------------------------
(* C34 *)

\* Every entry of cache h whose path exists in directory d is the lower-case
\* hash of the content at that path.
EntriesMatch(h, d) ==
    \A p \in Paths :
        (h[p] # NoEntry /\ d[p] # NoFile) => h[p] = get_blake3(d[p])

\* C34: if every cache entry matched the file at its path when the pass
\* started, then after every step of the pass (diff, download attempt,
\* extraction) every cache entry whose path exists matches the file's
\* current content.
C34_CacheStaysCorrect ==
    (/\ InGame
     /\ \A k \in Keys : hashes0[k] # NoEntry => (k \in Paths /\ disk0[k] # NoFile)
     /\ EntriesMatch(hashes0, disk0)) => EntriesMatch(hashes, disk)


----------------------------------------------------------------------------
(* C35 *)

\* The pass before this one ended with an error of extract_archive.
PrevExtractFailed ==
    /\ InGame /\ pass > 1
    /\ prevResult.status = "error"
    /\ prevResult.error \in {"Could not find file", "io"}

\* The archive of the manifest with the given name.
ArchiveNamed(name) ==
    manifest.archives[CHOOSE i \in DOMAIN manifest.archives :
                          manifest.archives[i].file_data.path = name]

\* The pass found the artifact of the archive already downloaded and went on
\* to extract_archive with it.
ReusedArtifact(name) ==
    \E i \in DOMAIN log :
        /\ log[i] = Event("already_downloaded", name)
        /\ i < Len(log)
        /\ log[i + 1] \in {Event("extracted", name), Event("extract_failed", name),
                           Event("extract_io_error", name)}

\* C35: when extract_archive fails, the artifact stays in the launcher
\* directory with the manifest hash; the next pass does not download that
\* archive again, and unless a download fails first it finds the artifact
\* already downloaded and extracts from it.
C35_ArtifactReused ==
    /\ (InGame /\ pc = "failed" /\ result.status = "error"
        /\ result.error \in {"Could not find file", "io"}) =>
           /\ artifacts[result.archive] # NoFile
           /\ verify_downloaded_file(artifacts[result.archive],
                  ArchiveNamed(result.archive).file_data.blake3)
    /\ PrevExtractFailed =>
           /\ ~HasEvent("download", prevResult.archive)
           /\ pc \in {"done", "failed"} =>
                  \/ ReusedArtifact(prevResult.archive)
                  \/ /\ result.status = "error"
                     /\ result.error = "Failed to download"

\* The second pass went on to extract from the artifact the first pass left.
C35_Witness ==
    /\ PrevExtractFailed
    /\ pc = "failed"
    /\ ReusedArtifact(prevResult.archive)
    /\ ~HasEvent("download", prevResult.archive)
    /\ artifacts[prevResult.archive] # NoFile


----------------------------------------------------------------------------
(* C37 *)

\* C37: when a pass of game.rs ends Ok, every cache key the pass wrote (its
\* entry differs from the one the pass started with) is the path of a file
\* that exists in the install directory; no entry is left for an archive
\* artifact the pass removed.
C37_WrittenKeysExist ==
    (InGame /\ pc = "done" /\ result = Ok) =>
        /\ \A k \in Keys :
               hashes[k] # hashes0[k] => (k \in Paths /\ disk[k] # NoFile)
        /\ \A name \in ArchiveNames :
               HasEvent("removed", name) => hashes[name] = NoEntry


----------------------------------------------------------------------------
(* C38 *)

\* A release that holds an asset for every archive name and asset name of
\* the definition the tool built.
FullRelease ==
    LET data == manifest.dto
        asset(name) == [name |-> name, url |-> <<"url", name>>]
    IN  [release_name |-> "r1",
         assets |-> [i \in DOMAIN data.archives |-> asset(data.archives[i].name)]
                    \o [i \in DOMAIN data.files |->
                           asset(data.files[i].asset_name)]]

\* C38: in the definition the release tool writes, every file entry with an
\* archive name has an archive entry of that name, every file entry has an
\* archive name or an asset name, and the launcher's conversion of the
\* definition (with every asset in the release) succeeds.
C38_DefinitionLinks ==
    (pc = "b_done") =>
        /\ \A i \in DOMAIN manifest.dto.files :
               LET file_dto == manifest.dto.files[i]
               IN  /\ file_dto.archive # None =>
                          \E a \in DOMAIN manifest.dto.archives :
                              manifest.dto.archives[a].name = file_dto.archive
                   /\ file_dto.archive # None \/ file_dto.asset_name # None
        /\ into_domain(manifest.dto, FullRelease).ok

\* The tool renamed the files and wrote a definition with an archive, its
\* members and a standalone file.
C38_Witness ==
    /\ pc = "b_done"
    /\ manifest.rename_files
    /\ manifest.dto.archives # <<>>
    /\ \E i, j \in DOMAIN manifest.dto.files :
           /\ manifest.dto.files[i].archive = "__launcher_a1.zip"
           /\ manifest.dto.files[j].asset_name = "__launcher_f1_dat"


----------------------------------------------------------------------------
(* C39 *)

\* The u32 size of a definition entry as a 64-bit length.
AsLength(size) == [hi |-> 0, lo |-> size]

\* C39: in the definition the release tool writes, the size of every file,
\* archive and archive member is its length in bytes, whatever 64-bit value
\* the length is.
C39_SizeIsLength ==
    (pc = "b_done") =>
        \A i \in DOMAIN manifest.tree :
            LET entry == manifest.tree[i]
                file == entry.file
                data == manifest.dto
            IN  \/ file.relative_path = "update.json"
                \/ /\ ~file.is_zip
                   /\ \E k \in DOMAIN data.files :
                          /\ data.files[k].path = file.relative_path
                          /\ AsLength(data.files[k].size) = entry.len
                \/ /\ file.is_zip
                   /\ \E a \in DOMAIN data.archives :
                          /\ data.archives[a].blake3 = entry.blake3
                          /\ AsLength(data.archives[a].size) = entry.len
                   /\ \A m \in DOMAIN file.members :
                          file.members[m].is_file =>
                              \E k \in DOMAIN data.files :
                                  /\ data.files[k].path = file.members[m].path
                                  /\ AsLength(data.files[k].size)
                                         = file.members[m].len

====
